---- MODULE Spec2Model ----
(***************************************************************************)
(* Sealpack: envelope codec, key hunt, seal and unseal pipelines, ledger,  *)
(* image references and the containerd client.                             *)
(* Bytes are naturals 0..255; cryptographic values are symbolic terms.     *)
(***************************************************************************)
EXTENDS Integers, Sequences, FiniteSets, TLC

VARIABLES
    epc,        \* envelope codec run: "init" | "written" | "cut" | "parsed"
    envel,      \* the Envelope being written (HashAlgorithm, CompressionAlgo, PayloadLen, ReceiverKeys)
    wire,       \* result of WriteOutput: [err, out] (out = bytes on the output sink)
    parsed,     \* result of ParseEnvelope on wire.out: [err, envel]
    \* ---- ReadArchive.Unpack (main flow, worker goroutine, Verifier) ----
    arc,        \* the tar entries the TarReader yields, in order
    target,     \* Unseal.TargetRegistry: "local" or a registry name
    upc,        \* main flow: "idle" | "next" | "hash" | "recv" | "verify" | "done"
    idx,        \* index of the current tar entry
    toc,        \* Verifier.toc (Nil until a TOC entry was read)
    tocSignature, \* Verifier.tocSignature
    unsafeTags, \* Verifier.unsafeTags
    Signatures, \* Verifier.Signatures: the locally computed ledger, name -> hash
    fs,         \* files under the output path: name -> chunks written
    images,     \* image store (containerd or registry): tag -> digest
    wpc,        \* worker goroutine of extractContentFile
    wpos,       \* chunks of the current entry the worker has read from the tar
    wold,       \* importLocal: oldImg digest (NoDigest if no image under the tag)
    werr,       \* the err the worker's store call returned
    pipeBuf,    \* io.Pipe: the chunk being handed over (None if none)
    pipeClosed, \* io.Pipe: bufW.Close() was called
    errCh,      \* the error channel, capacity 1
    hashed,     \* chunks AddFileFromReader has fed to the hasher for this entry
    result,     \* what Unpack returned (Nil while running)
    \* ---- history of the run (observation only) ----
    imported,   \* tags whose import succeeded past the client-open point
    storeErrs,  \* errors returned by storeFile / ImportImage
    rollback,   \* what Verify's rollback did
    \* ---- Seal, Unseal and GetPayload ----
    hashAlgo,   \* the hash NewSignatureList installed (signatures.go, var hashAlgo)
    spc,        \* seal/unseal run: "idle" | "config" | "sealed" | "opened"
    cfg,        \* the SealConfig of the run, with PrivKeyPath and HashingAlgorithm of its UnsealConfig
    sealed,     \* what Seal left behind: [err, bytes, window, altered]
    gp,         \* a GetPayload call: [pc, keys, priv, out]
    sw,         \* a Seal call step by step: the WriteArchive, the temp file, the output sink
    fcall       \* the run of one function or module followed on its own (storeContents,
                \* ParseContainerImage, the containerd client, extract, AddKeys, ...): [pc, ...]

evars == <<epc, envel, wire, parsed>>

svars == <<hashAlgo, spc, cfg, sealed, gp, sw, fcall>>

uvars == <<arc, target, upc, idx, toc, tocSignature, unsafeTags, Signatures, fs, images,
           wpc, wpos, wold, werr, pipeBuf, pipeClosed, errCh, hashed, result,
           imported, storeErrs, rollback>>

vars == <<epc, envel, wire, parsed,
          arc, target, upc, idx, toc, tocSignature, unsafeTags, Signatures, fs, images,
          wpc, wpos, wold, werr, pipeBuf, pipeClosed, errCh, hashed, result,
          imported, storeErrs, rollback,
          hashAlgo, spc, cfg, sealed, gp, sw, fcall>>

(***************************************************************************)
(* Bounds of the model                                                     *)
(***************************************************************************)
MaxPayload == 2      \* payload lengths 0..MaxPayload in the envelope runs
MaxKeys == 2         \* at most MaxKeys recipient keys in an envelope

(***************************************************************************)
(* Byte helpers                                                            *)
(***************************************************************************)
Byte == 0..255

RECURSIVE BitOr(_, _)
\* a | b on unsigned bytes
BitOr(a, b) ==
    IF a = 0 THEN b
    ELSE IF b = 0 THEN a
    ELSE (IF (a % 2 = 1) \/ (b % 2 = 1) THEN 1 ELSE 0) + 2 * BitOr(a \div 2, b \div 2)

RECURSIVE LittleEndian(_, _)
\* binary.LittleEndian.PutUint64: the k low bytes of n, least significant first
LittleEndian(n, k) ==
    IF k = 0 THEN <<>> ELSE <<n % 256>> \o LittleEndian(n \div 256, k - 1)

\* binary.LittleEndian.Uint64 followed by int64(): values that fit three bytes are
\* kept exactly, the others are classified (the integers of the model are 32 bit).
Uint64ToInt64(b) ==
    IF b[8] >= 128 THEN [kind |-> "negative", val |-> 0]
    ELSE IF \E i \in 4..8 : b[i] # 0 THEN [kind |-> "huge", val |-> 0]
    ELSE [kind |-> "small", val |-> b[1] + 256 * b[2] + 65536 * b[3]]

Drop(s, n) == SubSeq(s, n + 1, Len(s))
Take(s, n) == SubSeq(s, 1, n)

(***************************************************************************)
(* Envelope codec (archive.go)                                             *)
(***************************************************************************)
EnvelopeMagicBytes == <<219, 73, 80, 67>>
HeaderLen == 13     \* magic (4), config byte (1), payload length (8)

\* the config byte written by WriteHeader: (CompressionAlgo << 5) | uint8(HashAlgorithm)
ConfigByte(e) == BitOr((e.CompressionAlgo * 32) % 256, e.HashAlgorithm % 256)

\* Envelope.WriteHeader: magic, config byte, payload length (8 bytes little endian)
WriteHeader(e) ==
    EnvelopeMagicBytes \o <<ConfigByte(e)>> \o LittleEndian(e.PayloadLen, 8)

\* the length byte counting bytes instead of 8-byte units
KeyLenByteInBytes(key) == Len(key) % 256

\* the length prefix of one trailer record: uint8(len(key) / 8)
KeyLenByte(key) == (Len(key) \div 8) % 256

RECURSIVE WriteKeysFrom(_, _)
WriteKeysFrom(keys, acc) ==
    IF keys = <<>> THEN [err |-> "", out |-> acc]
    ELSE IF Len(Head(keys)) % 8 # 0 THEN [err |-> "invalid key length", out |-> acc]
    ELSE WriteKeysFrom(Tail(keys), acc \o <<KeyLenByte(Head(keys))>> \o Head(keys))

\* Envelope.WriteKeys: every key prefixed with its length in units of 8 bytes
WriteKeys(e) == WriteKeysFrom(e.ReceiverKeys, <<>>)

\* Envelope.WriteOutput: header, payload bytes copied from the temp file, key trailer
WriteOutput(e, payload) ==
    LET k == WriteKeys(e)
    IN  [err |-> k.err, out |-> WriteHeader(e) \o payload \o k.out]

RECURSIVE ReadKeys(_, _)
\* the trailer loop of ParseEnvelope: ReadByte, then CopyN of k*8 bytes, until EOF
ReadKeys(rest, acc) ==
    IF rest = <<>> THEN [err |-> "", keys |-> acc]
    ELSE LET k == Head(rest)
             body == Tail(rest)
         IN  IF Len(body) < k * 8 THEN [err |-> "EOF", keys |-> acc]
             ELSE ReadKeys(Drop(body, k * 8), Append(acc, Take(body, k * 8)))

NoEnvelope == [HashAlgorithm |-> 0, CompressionAlgo |-> 0, PayloadLen |-> 0, ReceiverKeys |-> <<>>]

\* ParseEnvelope over the whole input (a bufio.Reader on a seekable file)
ParseEnvelope(input) ==
    IF Len(input) < 4 THEN [err |-> "EOF", envel |-> NoEnvelope]
    ELSE IF Take(input, 4) # EnvelopeMagicBytes
    THEN [err |-> "not a valid sealpack file", envel |-> NoEnvelope]
    ELSE IF Len(input) < 5 THEN [err |-> "EOF", envel |-> NoEnvelope]
    ELSE IF Len(input) < 6 THEN [err |-> "EOF", envel |-> NoEnvelope]
    ELSE
      LET config == input[5]
          avail == Drop(input, 5)
          \* rd.Read(payload): one read of what is buffered, at most 8 bytes, no error
          n == IF Len(avail) < 8 THEN Len(avail) ELSE 8
          payload == [i \in 1..8 |-> IF i <= n THEN avail[i] ELSE 0]
          plen == Uint64ToInt64(payload)
          rest == Drop(avail, n)
      IN  IF plen.kind = "negative" THEN [err |-> "bufio: negative count", envel |-> NoEnvelope]
          ELSE IF plen.kind = "huge" \/ Len(rest) < plen.val
          THEN [err |-> "EOF", envel |-> NoEnvelope]
          ELSE LET ks == ReadKeys(Drop(rest, plen.val), <<>>)
               IN  IF ks.err # "" THEN [err |-> ks.err, envel |-> NoEnvelope]
                   ELSE [err |-> "",
                         envel |-> [HashAlgorithm |-> config % 32,
                                    CompressionAlgo |-> config \div 32,
                                    PayloadLen |-> plen.val,
                                    ReceiverKeys |-> ks.keys]]

(***************************************************************************)
(* Names: strings are sequences of tokens; the tokens are prefix free, so  *)
(* token-wise prefix tests and token-wise lexicographic order agree with   *)
(* the byte-wise ones of the Go strings.                                   *)
(***************************************************************************)
Nil == "nil"        \* a nil error
NilBuffer == <<>>   \* a nil *bytes.Buffer
Buffer(b) == <<b>>  \* a buffer holding b
None == <<>>        \* nothing in the pipe

\* tokens in byte order
TokOrder == <<".bak", ".images", ".oci", ".sealpack.toc", ".sig", "/", ":", "a.txt",
              "alpine", "b.txt", "busybox", "docker.io", "latest">>
TokRank(t) == CHOOSE i \in 1..Len(TokOrder) : TokOrder[i] = t

TocFileName == <<".sealpack.toc">>
TocSigFileName == TocFileName \o <<".sig">>
ContainerImagePrefix == <<".images">>

\* strings.HasPrefix
HasPrefix(s, p) == Len(s) >= Len(p) /\ SubSeq(s, 1, Len(p)) = p
\* strings.TrimPrefix
TrimPrefix(s, p) == IF HasPrefix(s, p) THEN SubSeq(s, Len(p) + 1, Len(s)) ELSE s

RECURSIVE StrLess(_, _)
\* a < b on strings
StrLess(a, b) ==
    IF b = <<>> THEN FALSE
    ELSE IF a = <<>> THEN TRUE
    ELSE IF Head(a) = Head(b) THEN StrLess(Tail(a), Tail(b))
    ELSE TokRank(Head(a)) < TokRank(Head(b))

RECURSIVE SortStringsDescending(_)
\* the keys with the greatest first
SortStringsDescending(S) ==
    IF S = {} THEN <<>>
    ELSE LET m == CHOOSE x \in S : \A y \in S \ {x} : StrLess(y, x)
         IN  <<m>> \o SortStringsDescending(S \ {m})

RECURSIVE SortStrings(_)
\* sort.Strings over a set of keys
SortStrings(S) ==
    IF S = {} THEN <<>>
    ELSE LET m == CHOOSE x \in S : \A y \in S \ {x} : StrLess(x, y)
         IN  <<m>> \o SortStrings(S \ {m})

(***************************************************************************)
(* Signature ledger (FileSignatures)                                       *)
(***************************************************************************)
\* hash.Hash of the configured algorithm over the content: a symbolic digest
HashSum(algo, content) == [algo |-> algo, of |-> content]

EmptyLedger == [n \in {} |-> Nil]

\* (*f)[name] = string(hashAlgo.Sum(nil)) of AddFile / AddFileFromReader
AddFile(f, algo, name, content) ==
    [n \in (DOMAIN f) \cup {name} |-> IF n = name THEN HashSum(algo, content) ELSE f[n]]

\* FileSignatures.Bytes: one line name:hash per entry, names sorted
Bytes(f) ==
    LET keys == SortStrings(DOMAIN f)
    IN  [i \in 1..Len(keys) |-> [name |-> keys[i], hash |-> f[keys[i]]]]

\* FileSignatures.Equals: every entry of f has the same hash in other. (A name
\* missing in other reads as the empty string, which no hash equals.)
Equals(f, other) ==
    \A k \in DOMAIN f : k \in DOMAIN other /\ other[k] = f[k]

(***************************************************************************)
(* Signatures over the TOC                                                 *)
(***************************************************************************)
\* signer.SignMessage: a signature by `key` over `msg`
SignMessage(key, msg) == [by |-> key, over |-> msg]

\* sigVerifier.VerifySignature(signature, message) under the signer's public key
VerifySignature(pub, sig, msg) ==
    IF sig = SignMessage(pub, msg) THEN Nil ELSE "crypto/rsa: verification error"

(***************************************************************************)
(* Image rollback (containers.go)                                          *)
(***************************************************************************)
LocalRegistry == "local"

\* RemoveAll: the delete calls it issues for a tag list; clientOk says whether
\* getContainerDClient succeeds. The loop body returns in its first iteration.
RemoveAll(tags, targetRegistry, clientOk) ==
    IF tags = <<>> THEN <<>>
    ELSE IF targetRegistry = LocalRegistry /\ ~clientOk THEN <<>>
    ELSE <<tags[1]>>

SeqsUpTo(S, n) == UNION {[1..k -> S] : k \in 0..n}

(***************************************************************************)
(* Verifier.Verify (verifier.go)                                           *)
(***************************************************************************)
Sender == "sender"          \* the key pair of the sealing party
Attacker == "attacker"      \* any other key pair
SigningKey == Sender        \* the public key Unseal was given as signer key
HashingAlgorithm == "SHA512" \* the hashing algorithm Seal and Unseal are given in the unpack runs

TocsNotMatching == "tocs not matching"
Panic == "panic: nil pointer dereference"

\* Verifier.Verify as control flow: the result it returns and the rollback calls it
\* makes, given the buffers, the ledger and the signer's public key.
\*   files: os.RemoveAll(outputPath) is called; tags: RemoveAll is called with unsafeTags
\* rmErr is the error of os.RemoveAll (Nil if it succeeds).
VerifyStopsAtFailedRemove(vtoc, vsig, ledger, pub, rmErr) ==
    IF vtoc = NilBuffer THEN [result |-> Panic, files |-> FALSE, tags |-> FALSE]
    ELSE IF vtoc[1] # Bytes(ledger) THEN [result |-> TocsNotMatching, files |-> FALSE, tags |-> FALSE]
    ELSE IF vsig = NilBuffer THEN [result |-> Panic, files |-> FALSE, tags |-> FALSE]
    ELSE IF VerifySignature(pub, vsig[1], vtoc[1]) # Nil
    THEN IF rmErr # Nil THEN [result |-> rmErr, files |-> TRUE, tags |-> FALSE]
         ELSE [result |-> VerifySignature(pub, vsig[1], vtoc[1]), files |-> TRUE, tags |-> TRUE]
    ELSE [result |-> Nil, files |-> FALSE, tags |-> FALSE]

VerifyNoSignatureCheck(vtoc, vsig, ledger, pub, rmErr) ==
    IF vtoc = NilBuffer THEN [result |-> Panic, files |-> FALSE, tags |-> FALSE]
    ELSE IF vtoc[1] # Bytes(ledger) THEN [result |-> TocsNotMatching, files |-> FALSE, tags |-> FALSE]
    ELSE [result |-> Nil, files |-> FALSE, tags |-> FALSE]

Verify(vtoc, vsig, ledger, pub, rmErr) ==
    IF vtoc = NilBuffer THEN [result |-> Panic, files |-> FALSE, tags |-> FALSE]
    ELSE IF vtoc[1] # Bytes(ledger) THEN [result |-> TocsNotMatching, files |-> FALSE, tags |-> FALSE]
    ELSE IF vsig = NilBuffer THEN [result |-> Panic, files |-> FALSE, tags |-> FALSE]
    ELSE IF VerifySignature(pub, vsig[1], vtoc[1]) # Nil
    THEN [result |-> VerifySignature(pub, vsig[1], vtoc[1]), files |-> TRUE, tags |-> TRUE]
    ELSE [result |-> Nil, files |-> FALSE, tags |-> FALSE]

(***************************************************************************)
(* Image import (containers.go) and storeImage (archive.go)                *)
(***************************************************************************)
RemoteRegistry == "cr.example.com"

\* the digest of an image tarball
Digest(body) == [sha |-> body]
OldDigest == [sha |-> <<0>>]
NoDigest == [sha |-> <<>>]    \* no image under the tag

\* name.NewTag(strings.TrimPrefix(h.Name, ContainerImagePrefix+"/"))
NewTag(name) == TrimPrefix(name, ContainerImagePrefix \o <<"/">>)

\* the tag part of a tag: what follows the ":"
TagStr(tag) ==
    LET i == CHOOSE j \in 1..Len(tag) : tag[j] = ":" /\ \A k \in (j + 1)..Len(tag) : tag[k] # ":"
    IN  SubSeq(tag, i + 1, Len(tag))

\* importToRegistry: tag.Repository = name.NewRepository(Unseal.TargetRegistry)
RewriteRepository(tag, registry) == <<registry, ":">> \o TagStr(tag)

\* the tag ImportImage works on
ImportTag(name, targetRegistry) ==
    IF targetRegistry = LocalRegistry THEN NewTag(name)
    ELSE RewriteRepository(NewTag(name), targetRegistry)

\* importLocal: newImport
ImportLocalNew(old, new) == old # NoDigest /\ old # new
\* importToRegistry: newImport
ImportRegistryNew(digBefore, digAfter) == digBefore # digAfter

\* storeImage: what it returns for ImportImage's (wasImported, err)
StoreImageReturn(wasImported, err) == IF wasImported THEN Nil ELSE err
\* storeImage: the unsafe tag list after the import
StoreImageTags(tags, tag, wasImported) == IF wasImported THEN Append(tags, tag) ELSE tags

(***************************************************************************)
(* Archives handed to Unpack                                               *)
(***************************************************************************)
MaxChunks == 2      \* chunks of a file body
MaxEntries == 2     \* content entries of an archive

TypeReg == "reg"
TypeDir == "dir"

ImageName(n) == <<".images", "/", "docker.io", "/", n, ":", "latest", ".oci">>
FileA == [Name |-> <<"a.txt">>, Typeflag |-> TypeReg, Body |-> [i \in 1..MaxChunks |-> i]]
FileB == [Name |-> <<"b.txt">>, Typeflag |-> TypeReg, Body |-> <<7>>]
ImgAlpine == [Name |-> ImageName("alpine"), Typeflag |-> TypeReg, Body |-> <<8>>]
ImgBusybox == [Name |-> ImageName("busybox"), Typeflag |-> TypeReg, Body |-> <<9>>]
DirEntry == [Name |-> <<"a.txt">>, Typeflag |-> TypeDir, Body |-> <<>>]
ContentChoices == {FileA, FileB, ImgAlpine, ImgBusybox, DirEntry}

RECURSIVE LedgerOf(_, _)
\* the ledger the sealing side computed over the contents
LedgerOf(contents, algo) ==
    IF contents = <<>> THEN EmptyLedger
    ELSE LET h == contents[Len(contents)]
             rest == LedgerOf(SubSeq(contents, 1, Len(contents) - 1), algo)
         IN  IF h.Typeflag = TypeReg THEN AddFile(rest, algo, h.Name, h.Body) ELSE rest

TocEntry(b) == [Name |-> TocFileName, Typeflag |-> TypeReg, Body |-> b]
SigEntry(b) == [Name |-> TocSigFileName, Typeflag |-> TypeReg, Body |-> b]

Tampers == {"none", "sigForged", "tocAltered", "bodyAltered", "noToc", "noSig"}

\* an archive as sealed by the sender, then altered on the way
BuildArchive(contents, tamper) ==
    LET t == Bytes(LedgerOf(contents, HashingAlgorithm))
        sig == SignMessage(Sender, t)
        altered == [i \in 1..Len(contents) |->
                      IF i = 1 THEN [contents[i] EXCEPT !.Body = Append(@, 6)] ELSE contents[i]]
        t2 == Bytes(LedgerOf(altered, HashingAlgorithm))
    IN  CASE tamper = "none" -> contents \o <<TocEntry(t), SigEntry(sig)>>
          [] tamper = "sigForged" -> contents \o <<TocEntry(t), SigEntry(SignMessage(Attacker, t))>>
          [] tamper = "tocAltered" ->
                contents \o <<TocEntry(Bytes(AddFile(LedgerOf(contents, HashingAlgorithm),
                                                     HashingAlgorithm, <<"b.txt">>, <<6>>))),
                              SigEntry(sig)>>
          [] tamper = "bodyAltered" -> altered \o <<TocEntry(t2), SigEntry(sig)>>
          [] tamper = "noToc" -> contents \o <<SigEntry(sig)>>
          [] tamper = "noSig" -> contents \o <<TocEntry(t)>>

AllTags == {ImportTag(ImageName(n), r) : n \in {"alpine", "busybox"},
                                         r \in {LocalRegistry, RemoteRegistry}}
NoImages == [t \in AllTags |-> NoDigest]
StaleImages == [t \in AllTags |-> OldDigest]

NoFiles == [n \in {} |-> <<>>]
NoRollback == [verified |-> FALSE, files |-> "none", tagsCalled |-> FALSE, tags |-> <<>>,
               clientOk |-> TRUE, attempts |-> <<>>]

(***************************************************************************)
(* Recipient keys and the key hunt of GetPayload                           *)
(***************************************************************************)
SymKeys == {11, 12}                 \* symmetric keys EncryptWriter may generate
ModulusPad == <<0, 0, 0, 0, 0, 0>>  \* pads a sealed key to the modulus size

OwnerCode(o) == CASE o = "alice" -> 1 [] o = "bob" -> 2 [] OTHER -> 3

\* rsa.EncryptPKCS1v15 under the public key of `owner`
RSAEncrypt(owner, plain) == <<OwnerCode(owner), plain>> \o ModulusPad

\* rsa.DecryptPKCS1v15 under the private key of `owner`
RSADecrypt(owner, c) ==
    IF Len(c) = Len(RSAEncrypt(owner, 0)) /\ c[1] = OwnerCode(owner)
    THEN [err |-> Nil, plain |-> c[2]]
    ELSE [err |-> "crypto/rsa: decryption error", plain |-> 0]

\* symmecrypt.NewKey: a nil key is <<>>
NewKey(plain) ==
    IF plain \in SymKeys THEN [symKey |-> <<plain>>, err |-> Nil]
    ELSE [symKey |-> <<>>, err |-> "invalid key"]

\* LoadPrivateKey: the key file of a path
LoadPrivateKey(path) ==
    CASE path = "unreadable" -> [err |-> "no such file", kind |-> "", owner |-> ""]
      [] path = "ecdsa" -> [err |-> Nil, kind |-> "ecdsa", owner |-> "alice"]
      [] OTHER -> [err |-> Nil, kind |-> "rsa", owner |-> path]

TryUnsealKey(encrypted, pKey) ==
    IF pKey.kind # "rsa"
    THEN [symKey |-> <<>>, err |-> "ECDSA Keys cannot be used for decryption"]
    ELSE LET d == RSADecrypt(pKey.owner, encrypted)
         IN  IF d.err # Nil THEN [symKey |-> <<>>, err |-> d.err] ELSE NewKey(d.plain)

RECURSIVE KeyLoop(_, _, _, _, _)
\* the loop given up at the first key that does not unseal
KeyLoopStopsAtFailure(keys, pKey, i, symKey, tried) ==
    IF i > Len(keys) THEN [symKey |-> symKey, tried |-> tried]
    ELSE [symKey |-> TryUnsealKey(keys[i], pKey).symKey, tried |-> Append(tried, i)]

\* for _, key := range e.ReceiverKeys { symKey, err = TryUnsealKey(key, pKey); ... }
\* `tried` lists the indices tried, in order
KeyLoop(keys, pKey, i, symKey, tried) ==
    IF i > Len(keys) THEN [symKey |-> symKey, tried |-> tried]
    ELSE LET r == TryUnsealKey(keys[i], pKey)
         IN  IF r.err = Nil THEN [symKey |-> r.symKey, tried |-> Append(tried, i)]
             ELSE KeyLoop(keys, pKey, i + 1, r.symKey, Append(tried, i))

NotSealedForKey == "not sealed for the provided private key"

\* Envelope.GetPayload up to the choice of the reader
GetPayload(keys, privKeyPath) ==
    IF Len(keys) < 1
    THEN [err |-> Nil, symKey |-> <<>>, tried |-> <<>>]
    ELSE LET pKey == LoadPrivateKey(privKeyPath)
         IN  IF pKey.err # Nil THEN [err |-> pKey.err, symKey |-> <<>>, tried |-> <<>>]
             ELSE LET r == KeyLoop(keys, pKey, 1, <<>>, <<>>)
                  IN  IF r.symKey = <<>>
                      THEN [err |-> NotSealedForKey, symKey |-> <<>>, tried |-> r.tried]
                      ELSE [err |-> Nil, symKey |-> r.symKey, tried |-> r.tried]

(***************************************************************************)
(* Seal: the archive pipeline (tar, compression, encryption)               *)
(***************************************************************************)
\* A stream is the tar entries under the layers written around them,
\* outermost layer first, with the authentication tag of the cipher (if any).
Layer(kind, key) == [kind |-> kind, key |-> key]
Plain(entries) == [layers |-> <<>>, tar |-> entries, mac |-> <<>>]
Wrap(layer, stream) == [stream EXCEPT !.layers = <<layer>> \o @]

\* GetHashAlgorithm: the crypto.Hash of a name, SHA512 when the name is unknown
GetHashAlgorithm(algo) ==
    CASE algo = "SHA224" -> 4
      [] algo = "SHA256" -> 5
      [] algo = "SHA384" -> 6
      [] OTHER -> 7

\* the hash NewSignatureList installs for a name
NewSignatureList(algo) ==
    IF algo \in {"SHA224", "SHA256", "SHA384", "SHA512"} THEN algo ELSE "SHA512"

\* GetCompressionAlgoIndex
GetCompressionAlgoIndex(algo) ==
    CASE algo = "zlib" -> 1
      [] algo = "zip" -> 2
      [] algo = "flate" -> 3
      [] OTHER -> 0

\* WriteArchive.InitializeCompression and what the writer emits
WriteInitializeCompression(stream, compressionAlgo) ==
    CASE compressionAlgo = 1 -> Wrap(Layer("zlib", 0), stream)
      [] compressionAlgo = 2 -> stream
      [] compressionAlgo = 3 -> Wrap(Layer("flate", 0), stream)
      [] OTHER -> Wrap(Layer("gzip", 0), stream)

\* ReadArchive.InitializeCompression and what the reader yields
ReadInitializeCompression(stream, compressionAlgo) ==
    LET kind == CASE compressionAlgo = 1 -> "zlib"
                  [] compressionAlgo = 3 -> "flate"
                  [] OTHER -> "gzip"
    IN  IF compressionAlgo = 2 THEN [err |-> Nil, stream |-> stream]
        ELSE IF stream.layers # <<>> /\ stream.layers[1] = Layer(kind, 0)
        THEN [err |-> Nil, stream |-> [stream EXCEPT !.layers = Tail(@)]]
        ELSE [err |-> "invalid header", stream |-> stream]

\* the Poly1305 tag of a sealed stream: it binds the key and all that was written
Mac(key, stream) == [key |-> key, layers |-> stream.layers, tar |-> stream.tar]

AuthFailed == "message authentication failed"

\* symmecrypt.NewWriter(w, key), written and closed: the ciphertext and its tag
EncryptWriter(stream, key) ==
    [Wrap(Layer("xchacha20poly1305", key), stream) EXCEPT !.mac = <<Mac(key, stream)>>]

\* a reader that hands on whatever the ciphertext holds
DecryptReaderNoAuth(stream, symKey) ==
    IF stream.layers # <<>> /\ stream.layers[1].kind = "xchacha20poly1305"
    THEN [err |-> Nil, stream |-> [stream EXCEPT !.layers = Tail(@), !.mac = <<>>]]
    ELSE [err |-> AuthFailed, stream |-> stream]

\* symmecrypt.NewReader(r, key): reads the whole ciphertext and opens it under the
\* key; the plaintext is handed on only if the tag matches
DecryptReader(stream, symKey) ==
    LET inner == [stream EXCEPT !.layers = Tail(@), !.mac = <<>>]
    IN  IF /\ stream.layers # <<>>
           /\ stream.layers[1] = Layer("xchacha20poly1305", symKey[1])
           /\ stream.mac = <<Mac(symKey[1], inner)>>
        THEN [err |-> Nil, stream |-> inner]
        ELSE [err |-> AuthFailed, stream |-> stream]

RECURSIVE addFiles(_, _, _, _)
\* WriteArchive.addFiles with storeContents: the tar entries and the ledger
addFiles(files, algo, i, st) ==
    IF i > Len(files) THEN st
    ELSE LET name == TrimPrefix(files[i].path, <<"/">>)
         IN  addFiles(files, algo, i + 1,
                      [tar |-> Append(st.tar, [Name |-> name, Typeflag |-> TypeReg,
                                               Body |-> files[i].content]),
                       ledger |-> AddFile(st.ledger, algo, name, files[i].content)])

\* the TOC and its signature written ahead of the contents
AddTocFirst(tar, ledger, signer) ==
    <<TocEntry(Bytes(ledger)), SigEntry(SignMessage(signer, Bytes(ledger)))>> \o tar

\* WriteArchive.AddToc: the TOC and its signature appended to the tar
AddToc(tar, ledger, signer) ==
    tar \o <<TocEntry(Bytes(ledger)), SigEntry(SignMessage(signer, Bytes(ledger)))>>

\* AddKeys: the symmetric key sealed for every recipient, in list order
AddKeys(recipients, plainKey) ==
    [i \in 1..Len(recipients) |-> RSAEncrypt(recipients[i], plainKey)]

PayloadBytes(n) == [i \in 1..n |-> (3 * i) % 256]

NoSealed == [err |-> Nil, bytes |-> <<>>, window |-> Plain(<<>>), altered |-> FALSE]

\* Seal: what it leaves at the output path. The payload window of the output holds
\* the stream; its bytes stand in the envelope as one byte per tar entry.
\* A second Close of the encryption writer (zip index) is taken to be harmless.
Seal(c, encryptionKey) ==
    IF c.Public /\ Len(c.Recipients) > 0
    THEN [NoSealed EXCEPT !.err = "cannot use -public with -recipient-pubkey"]
    ELSE LET algo == NewSignatureList(c.HashingAlgorithm)
             index == GetCompressionAlgoIndex(c.CompressionAlgorithm)
             added == addFiles(c.Files, algo, 1, [tar |-> <<>>, ledger |-> EmptyLedger])
             tar == AddToc(added.tar, added.ledger, Sender)
             packed == WriteInitializeCompression(Plain(tar), index)
             window == IF c.Public THEN packed ELSE EncryptWriter(packed, encryptionKey)
             envelope == [HashAlgorithm |-> GetHashAlgorithm(c.HashingAlgorithm),
                          CompressionAlgo |-> index,
                          PayloadLen |-> Len(tar),
                          ReceiverKeys |-> IF c.Public THEN <<>>
                                           ELSE AddKeys(c.Recipients, encryptionKey)]
             out == WriteOutput(envelope, PayloadBytes(Len(tar)))
         IN  [err |-> IF out.err = "" THEN Nil ELSE out.err,
              bytes |-> out.out,
              window |-> window,
              altered |-> FALSE]

(***************************************************************************)
(* The writer chain of a WriteArchive and the temp file under it, in bytes *)
(***************************************************************************)
TarTrailerSize == 2     \* tar.Writer.Close: the two blocks that end an archive
CipherOverhead == 40    \* XChaCha20-Poly1305: 24 bytes of nonce, 16 bytes of tag

\* a tar entry in blocks: its header and its body (a signature fills one block)
EntrySize(e) == IF e.Name = TocSigFileName THEN 2 ELSE 1 + Len(e.Body)

\* what a closed compressor adds around the bytes it was given (header and trailer
\* of the format); the size of the compressed data is taken as that of the input
CompressionOverhead(index) ==
    CASE index = 1 -> 6
      [] index = 3 -> 0
      [] OTHER -> 18

\* CreateArchiveWriter: the temp file is empty and nothing is buffered
CreateArchiveWriter(public, compressionAlgo) ==
    [compressionAlgo |-> compressionAlgo, public |-> public,
     compPending |-> 0, encPending |-> 0, encCloses |-> 0, tmpSize |-> 0]

\* n bytes written to what lies under the compressor: the temp file (public) or the
\* encryption writer, which keeps everything until it is closed
WriteUnder(w, n) ==
    IF w.public THEN [w EXCEPT !.tmpSize = @ + n] ELSE [w EXCEPT !.encPending = @ + n]

\* n bytes written to the tar writer: they reach the compressor, which keeps them
\* until it is closed, or (index 2) go straight to what lies under it
WriteTar(w, n) ==
    IF w.compressionAlgo = 2 THEN WriteUnder(w, n) ELSE [w EXCEPT !.compPending = @ + n]

\* encryptWriter.Close(): the sealed buffer goes to the temp file. `again` says
\* whether a Close after the first one writes the sealed buffer once more.
CloseEncrypt(w, again) ==
    IF w.encCloses = 0 \/ again
    THEN [w EXCEPT !.tmpSize = @ + w.encPending + CipherOverhead, !.encCloses = @ + 1]
    ELSE [w EXCEPT !.encCloses = @ + 1]

\* arc.compressWriter.Close(): with index 2 the compress writer is the writer under it
CloseCompress(w, again) ==
    IF w.compressionAlgo = 2
    THEN IF w.public THEN w ELSE CloseEncrypt(w, again)
    ELSE WriteUnder([w EXCEPT !.compPending = 0],
                    w.compPending + CompressionOverhead(w.compressionAlgo))

\* Finalize that asks for the size before it closes the writers
FinalizeStatFirst(w, again, failAt) ==
    LET w1 == WriteTar(w, TarTrailerSize)
        w2 == CloseCompress(w1, again)
        w3 == IF w.public THEN w2 ELSE CloseEncrypt(w2, again)
    IN  [w |-> w3, size |-> w.tmpSize, err |-> Nil]

\* WriteArchive.Finalize: close tar, compressor and encryption writer, then stat the
\* temp file. failAt names the step that fails ("none": no step fails).
Finalize(w, again, failAt) ==
    LET w1 == WriteTar(w, TarTrailerSize)
        w2 == CloseCompress(w1, again)
        w3 == IF w.public THEN w2 ELSE CloseEncrypt(w2, again)
    IN  CASE failAt = "tar" -> [w |-> w, size |-> 0, err |-> "close failed"]
          [] failAt = "compress" -> [w |-> w1, size |-> 0, err |-> "close failed"]
          [] failAt = "encrypt" /\ ~w.public -> [w |-> w2, size |-> 0, err |-> "close failed"]
          [] failAt = "stat" -> [w |-> w3, size |-> 0, err |-> "stat failed"]
          [] OTHER -> [w |-> w3, size |-> w3.tmpSize, err |-> Nil]

\* a Seal call that has not started
NoSealRun ==
    [pc |-> "idle", w |-> CreateArchiveWriter(TRUE, 0), tar |-> <<>>, ledger |-> EmptyLedger,
     next |-> 1, tmpExists |-> FALSE, imgDir |-> FALSE, saved |-> 0, imgRm |-> "not called",
     PayloadLen |-> 0, ReceiverKeys |-> <<>>, EncryptionKey |-> 0,
     sinkExists |-> FALSE, sink |-> <<>>, copied |-> 0, failed |-> "", err |-> Nil]

NoConfig == [HashingAlgorithm |-> "", CompressionAlgorithm |-> "", Files |-> <<>>,
             Images |-> <<>>, Public |-> TRUE, Recipients |-> <<>>, PrivKeyPath |-> "",
             UnsealHashingAlgorithm |-> ""]
NoCall == [pc |-> "idle", keys |-> <<>>, priv |-> "",
           out |-> [err |-> Nil, symKey |-> <<>>, tried |-> <<>>]]

SealIdle ==
    /\ spc = "idle"
    /\ cfg = NoConfig
    /\ sealed = NoSealed
    /\ sw = NoSealRun
GetPayloadIdle == gp = NoCall

NoFCall == [pc |-> "idle"]
CallIdle == fcall = NoFCall

(***************************************************************************)
(* Unpack: main flow                                                       *)
(***************************************************************************)
ErrChCap == 1

EnvIdle ==
    /\ epc = "idle"
    /\ envel = NoEnvelope
    /\ wire = [err |-> "", out |-> <<>>]
    /\ parsed = [err |-> "", envel |-> NoEnvelope]

\* the state NewVerifier and OpenArchiveReader leave behind
UnpackFresh ==
    /\ idx = 1
    /\ toc = NilBuffer
    /\ tocSignature = NilBuffer
    /\ unsafeTags = <<>>
    /\ Signatures = EmptyLedger
    /\ fs = NoFiles
    /\ wpc = "idle"
    /\ wpos = 0
    /\ wold = NoDigest
    /\ werr = Nil
    /\ pipeBuf = None
    /\ pipeClosed = FALSE
    /\ errCh = <<>>
    /\ hashed = <<>>
    /\ result = Nil
    /\ imported = {}
    /\ storeErrs = <<>>
    /\ rollback = NoRollback

UnpackIdle ==
    /\ hashAlgo = HashingAlgorithm
    /\ arc = <<>>
    /\ target = LocalRegistry
    /\ images = NoImages
    /\ upc = "idle"
    /\ UnpackFresh

UnpackInit ==
    /\ EnvIdle
    /\ SealIdle
    /\ GetPayloadIdle
    /\ CallIdle
    /\ hashAlgo = NewSignatureList(HashingAlgorithm)
    /\ \E contents \in SeqsUpTo(ContentChoices, MaxEntries), tamper \in Tampers :
          arc = BuildArchive(contents, tamper)
    /\ target \in {LocalRegistry, RemoteRegistry}
    /\ images \in {NoImages, StaleImages}
    /\ upc = "next"
    /\ UnpackFresh

IsImage(h) == HasPrefix(h.Name, ContainerImagePrefix)
IsTocComponent(h) == HasPrefix(h.Name, TocFileName)

wvars == <<wpc, wpos, wold, werr, pipeBuf, pipeClosed, errCh, hashed>>
hvars == <<imported, storeErrs, rollback>>

\* Unpack loop: TarReader.Next, the type switch, extract up to the dispatch
UnpackNext ==
    /\ upc = "next"
    /\ IF idx > Len(arc)
       THEN /\ upc' = "verify"
            /\ UNCHANGED <<idx, toc, tocSignature, result, wvars>>
       ELSE LET h == arc[idx] IN
            IF h.Typeflag # TypeReg
            THEN /\ result' = "unknown type"
                 /\ upc' = "done"
                 /\ UNCHANGED <<idx, toc, tocSignature, wvars>>
            ELSE \E mkdirOk \in (IF IsImage(h) THEN {TRUE} ELSE BOOLEAN) :
                 IF ~mkdirOk
                 THEN /\ result' = "creating archive failed"
                      /\ upc' = "done"
                      /\ UNCHANGED <<idx, toc, tocSignature, wvars>>
                 ELSE IF ~IsTocComponent(h)
                 THEN \* extractContentFile: pipe, error channel, go func()
                      /\ wpc' = "start"
                      /\ wpos' = 0
                      /\ wold' = NoDigest
                      /\ werr' = Nil
                      /\ pipeBuf' = None
                      /\ pipeClosed' = FALSE
                      /\ errCh' = <<>>
                      /\ hashed' = <<>>
                      /\ upc' = "hash"
                      /\ UNCHANGED <<idx, toc, tocSignature, result>>
                 ELSE \* Verifier.AddTocComponent
                      /\ toc' = IF h.Name = TocFileName THEN Buffer(h.Body) ELSE toc
                      /\ tocSignature' = IF h.Name = TocFileName THEN tocSignature
                                         ELSE Buffer(h.Body)
                      /\ idx' = idx + 1
                      /\ UNCHANGED <<upc, result, wvars>>
    /\ UNCHANGED <<evars, svars, arc, target, unsafeTags, Signatures, fs, images, hvars>>

\* AddFileFromReader's io.Copy sees EOF on the pipe
PipeAtEOFAlways == TRUE
PipeNeverAtEOF == FALSE
PipeAtEOF == pipeClosed

\* verify.Signatures.AddFileFromReader(h.Name, buf): read the pipe until EOF
MainRead ==
    /\ upc = "hash"
    /\ pipeBuf # None \/ PipeAtEOF
    /\ IF pipeBuf # None
       THEN /\ hashed' = hashed \o pipeBuf
            /\ pipeBuf' = None
            /\ UNCHANGED <<Signatures, upc>>
       ELSE /\ Signatures' = AddFile(Signatures, hashAlgo, arc[idx].Name, hashed)
            /\ upc' = "recv"
            /\ UNCHANGED <<hashed, pipeBuf>>
    /\ UNCHANGED <<evars, svars, arc, target, idx, toc, tocSignature, unsafeTags, fs, images,
                   wpc, wpos, wold, werr, pipeClosed, errCh, result, hvars>>

\* err = <-errCh; return
MainRecv ==
    /\ upc = "recv"
    /\ errCh # <<>>
    /\ errCh' = Tail(errCh)
    /\ IF Head(errCh) = Nil
       THEN /\ idx' = idx + 1
            /\ upc' = "next"
            /\ UNCHANGED result
       ELSE /\ result' = Head(errCh)
            /\ upc' = "done"
            /\ UNCHANGED idx
    /\ UNCHANGED <<evars, svars, arc, target, toc, tocSignature, unsafeTags, Signatures, fs, images,
                   wpc, wpos, wold, werr, pipeBuf, pipeClosed, hashed, hvars>>

\* verifier.Verify() at the end of Unpack, with its rollback
UnpackVerify ==
    /\ upc = "verify"
    /\ \E rmOk \in BOOLEAN, clientOk \in BOOLEAN, deleteOk \in BOOLEAN :
         LET rmErr == IF rmOk THEN Nil ELSE "remove failed"
             v == Verify(toc, tocSignature, Signatures, SigningKey, rmErr)
             attempts == IF v.tags THEN RemoveAll(unsafeTags, target, clientOk) ELSE <<>>
         IN  /\ result' = IF v.result = Nil THEN "ok" ELSE v.result
             /\ fs' = IF v.files /\ rmOk THEN NoFiles ELSE fs
             /\ images' = [t \in DOMAIN images |->
                             IF deleteOk /\ \E i \in 1..Len(attempts) : attempts[i] = t
                             THEN NoDigest ELSE images[t]]
             /\ rollback' = [verified |-> TRUE,
                             files |-> IF ~v.files THEN "none"
                                       ELSE IF rmOk THEN "removed" ELSE "failed",
                             tagsCalled |-> v.tags,
                             tags |-> IF v.tags THEN unsafeTags ELSE <<>>,
                             clientOk |-> target # LocalRegistry \/ clientOk,
                             attempts |-> attempts]
    /\ upc' = "done"
    /\ UNCHANGED <<evars, svars, arc, target, idx, toc, tocSignature, unsafeTags, Signatures,
                   wvars, imported, storeErrs>>

(***************************************************************************)
(* Unpack: the worker goroutine of extractContentFile                      *)
(***************************************************************************)
mvars == <<upc, idx, toc, tocSignature, Signatures, result>>

\* storeFile: os.Create / ImportImage: the client and the lookup of the old image
WorkerStart ==
    /\ wpc = "start"
    /\ LET h == arc[idx] IN
       IF IsImage(h)
       THEN \E clientOk \in (IF target = LocalRegistry THEN BOOLEAN ELSE {TRUE}) :
            IF ~clientOk
            THEN \* importLocal returns (false, err); storeImage returns err
                 /\ werr' = StoreImageReturn(FALSE, "no client")
                 /\ storeErrs' = Append(storeErrs, "no client")
                 /\ wpc' = "ret"
                 /\ UNCHANGED <<wold, fs>>
            ELSE /\ wold' = images[ImportTag(h.Name, target)]
                 /\ wpc' = "read"
                 /\ UNCHANGED <<werr, storeErrs, fs>>
       ELSE \E createOk \in BOOLEAN :
            IF ~createOk
            THEN /\ werr' = "create failed"
                 /\ storeErrs' = Append(storeErrs, "create failed")
                 /\ wpc' = "ret"
                 /\ UNCHANGED <<wold, fs>>
            ELSE /\ fs' = [n \in DOMAIN fs \cup {h.Name} |-> IF n = h.Name THEN <<>> ELSE fs[n]]
                 /\ wpc' = "read"
                 /\ UNCHANGED <<wold, werr, storeErrs>>
    /\ UNCHANGED <<evars, svars, arc, target, mvars, unsafeTags, images, wpos, pipeBuf, pipeClosed,
                   errCh, hashed, imported, rollback>>

\* TeeReader.Read: read a chunk of the entry, write it to the pipe
WorkerRead ==
    /\ wpc = "read"
    /\ IF wpos < Len(arc[idx].Body)
       THEN /\ pipeBuf' = <<arc[idx].Body[wpos + 1]>>
            /\ wpos' = wpos + 1
            /\ wpc' = "ack"
       ELSE /\ wpc' = "finish"
            /\ UNCHANGED <<pipeBuf, wpos>>
    /\ UNCHANGED <<evars, svars, arc, target, mvars, unsafeTags, fs, images, wold, werr, pipeClosed,
                   errCh, hashed, hvars>>

\* the pipe write returns once the reader has taken the chunk; the sink consumes it
WorkerAck ==
    /\ wpc = "ack"
    /\ pipeBuf = None
    /\ LET h == arc[idx] IN
       \E sinkOk \in BOOLEAN :
       IF ~sinkOk
       THEN \* io.Copy fails / the import fails: ImportImage returns (false, err)
            /\ werr' = IF IsImage(h) THEN StoreImageReturn(FALSE, "import failed")
                       ELSE "write failed"
            /\ storeErrs' = Append(storeErrs, IF IsImage(h) THEN "import failed"
                                              ELSE "write failed")
            /\ wpc' = "ret"
            /\ UNCHANGED fs
       ELSE /\ fs' = IF IsImage(h) THEN fs
                     ELSE [fs EXCEPT ![h.Name] = Append(@, arc[idx].Body[wpos])]
            /\ wpc' = "read"
            /\ UNCHANGED <<werr, storeErrs>>
    /\ UNCHANGED <<evars, svars, arc, target, mvars, unsafeTags, images, wpos, wold, pipeBuf,
                   pipeClosed, errCh, hashed, imported, rollback>>

\* storeFile: Sync and Close / ImportImage: the image is stored, newImport decided,
\* then storeImage records the tag or returns the error
WorkerFinish ==
    /\ wpc = "finish"
    /\ LET h == arc[idx]
           tag == ImportTag(h.Name, target)
       IN
       IF ~IsImage(h)
       THEN \E closeOk \in BOOLEAN :
            /\ werr' = IF closeOk THEN Nil ELSE "close failed"
            /\ storeErrs' = IF closeOk THEN storeErrs ELSE Append(storeErrs, "close failed")
            /\ UNCHANGED <<images, imported, unsafeTags>>
       ELSE \E after \in (IF target = LocalRegistry THEN {"closed", "close failed"}
                          ELSE {"same", "differs", "digest failed"}) :
            LET err == IF after \in {"close failed", "digest failed"} THEN after ELSE Nil
                digAfter == CASE after = "same" -> Digest(h.Body)
                              [] after = "differs" -> OldDigest
                              [] OTHER -> NoDigest
                wasImported == IF target = LocalRegistry
                               THEN ImportLocalNew(wold, Digest(h.Body))
                               ELSE ImportRegistryNew(Digest(h.Body), digAfter)
            IN  /\ images' = [images EXCEPT ![tag] = Digest(h.Body)]
                /\ imported' = imported \cup {tag}
                /\ unsafeTags' = StoreImageTags(unsafeTags, tag, wasImported)
                /\ werr' = StoreImageReturn(wasImported, err)
                /\ storeErrs' = IF err = Nil THEN storeErrs ELSE Append(storeErrs, err)
    /\ wpc' = "ret"
    /\ UNCHANGED <<evars, svars, arc, target, mvars, fs, wpos, wold, pipeBuf, pipeClosed,
                   errCh, hashed, rollback>>

\* if err != nil { errCh <- err }
WorkerReturn ==
    /\ wpc = "ret"
    /\ werr = Nil \/ Len(errCh) < ErrChCap
    /\ errCh' = IF werr = Nil THEN errCh ELSE Append(errCh, werr)
    /\ wpc' = "close"
    /\ UNCHANGED <<evars, svars, arc, target, mvars, unsafeTags, fs, images, wpos, wold, werr,
                   pipeBuf, pipeClosed, hashed, hvars>>

\* the deferred function: bufW.Close() ...
WorkerClose ==
    /\ wpc = "close"
    /\ pipeClosed' = TRUE
    /\ wpc' = "send"
    /\ UNCHANGED <<evars, svars, arc, target, mvars, unsafeTags, fs, images, wpos, wold, werr,
                   pipeBuf, errCh, hashed, hvars>>

\* ... errCh <- its result, which is always nil
WorkerSend ==
    /\ wpc = "send"
    /\ Len(errCh) < ErrChCap
    /\ errCh' = Append(errCh, Nil)
    /\ wpc' = "done"
    /\ UNCHANGED <<evars, svars, arc, target, mvars, unsafeTags, fs, images, wpos, wold, werr,
                   pipeBuf, pipeClosed, hashed, hvars>>

UnpackStep ==
    \/ UnpackNext
    \/ MainRead
    \/ MainRecv
    \/ UnpackVerify
    \/ WorkerStart
    \/ WorkerRead
    \/ WorkerAck
    \/ WorkerFinish
    \/ WorkerReturn
    \/ WorkerClose
    \/ WorkerSend

SpecUnpack == UnpackInit /\ [][UnpackStep]_vars

(***************************************************************************)
(* Properties of Unpack and Verify                                         *)
(***************************************************************************)
SigError == "crypto/rsa: verification error"
VerifyDone == upc = "done" /\ rollback.verified
TocMatches == toc # NilBuffer /\ toc[1] = Bytes(Signatures)
SigValid == toc # NilBuffer /\ tocSignature # NilBuffer
            /\ tocSignature[1] = SignMessage(SigningKey, toc[1])
InList(t, list) == \E i \in 1..Len(list) : list[i] = t

C4_SignatureFailureRollsBack ==
    (VerifyDone /\ TocMatches /\ tocSignature # NilBuffer /\ ~SigValid) =>
        /\ rollback.files \in {"removed", "failed"}
        /\ rollback.files = "removed" => fs = NoFiles
        /\ rollback.tagsCalled
        /\ rollback.tags = unsafeTags
        /\ result = SigError

\* C4 happens: the output path could not be removed, unsafe tags were recorded and
\* the delete of the first one failed too
C4_Witness ==
    /\ VerifyDone /\ TocMatches /\ tocSignature # NilBuffer /\ ~SigValid
    /\ rollback.files = "failed"
    /\ Len(rollback.tags) = 2
    /\ ~rollback.clientOk

\* C5: every verification failure, a TOC that differs from the ledger included,
\* deletes the extracted files and removes the recorded tags before it returns.
C5_EveryFailureRollsBack ==
    (VerifyDone /\ result \in {TocsNotMatching, SigError}) =>
        /\ rollback.files # "none"
        /\ rollback.tagsCalled

\* C5 fails here: a TOC mismatch returned with files and tags left in place
C5_Witness ==
    /\ VerifyDone
    /\ result = TocsNotMatching
    /\ DOMAIN fs # {}
    /\ unsafeTags # <<>>
    /\ rollback.files = "none"
    /\ ~rollback.tagsCalled

\* C6: RemoveAll, given n tags, attempts a delete for each of them in list order.
C6_RemoveAllTriesEveryTag ==
    rollback.tagsCalled => rollback.attempts = rollback.tags

\* C6 fails here: two tags handed over, a client at hand, one delete attempted
C6_Witness ==
    /\ rollback.tagsCalled
    /\ rollback.clientOk
    /\ Len(rollback.tags) = 2
    /\ Len(rollback.attempts) = 1

\* C7: by the time Verify runs, every tag imported during the run is in the
\* verifier's unsafe tag list.
C7_ImportedTagsAreUnsafe ==
    upc = "verify" => \A t \in imported : InList(t, unsafeTags)

\* C7 fails here: an image imported under a tag that held no image before
C7_Witness ==
    /\ upc = "verify"
    /\ \E t \in imported : images[t] # NoDigest /\ ~InList(t, unsafeTags)

\* C8: whenever the main flow is outside extractContentFile (about to take the next
\* entry, in Verify, or returned), the worker of the last content entry has finished
\* storing and the pipe has been closed.
C8_MainWaitsForWorker ==
    (upc \in {"next", "verify", "done"} /\ wpc # "idle") =>
        /\ wpc \in {"send", "done"}
        /\ pipeClosed

\* C8 happens: the main flow moved on to the second entry after the worker of the
\* first finished
C8_Witness ==
    /\ upc = "next"
    /\ idx = 2
    /\ wpc = "done"
    /\ pipeClosed
    /\ pipeBuf = None

\* C9: once a store step of the worker has failed, Unpack takes no further entry
\* and ends with that error.
C9_WorkerErrorStopsUnpack ==
    storeErrs # <<>> =>
        /\ upc \in {"hash", "recv", "done"}
        /\ upc = "done" => result = storeErrs[1]

\* C9 fails here: ImportImage returned an error together with wasImported, and the
\* main flow went on to the next entry
C9_Witness ==
    /\ storeErrs # <<>>
    /\ upc = "next"
    /\ werr = Nil


(***************************************************************************)
(* GetPayload runs                                                         *)
(***************************************************************************)
\* sealed keys in a trailer: for alice, for bob, for alice under the other symmetric
\* key, for alice but holding no usable symmetric key, and one of the wrong size
TrailerKeyChoices ==
    {RSAEncrypt("alice", 11), RSAEncrypt("bob", 11), RSAEncrypt("alice", 12),
     RSAEncrypt("alice", 99), <<1, 11>>}
PrivKeyPaths == {"alice", "bob", "ecdsa", "unreadable"}

GetPayloadInit ==
    /\ EnvIdle
    /\ CallIdle
    /\ UnpackIdle
    /\ SealIdle
    /\ \E k \in SeqsUpTo(TrailerKeyChoices, MaxKeys), p \in PrivKeyPaths :
          gp = [NoCall EXCEPT !.pc = "call", !.keys = k, !.priv = p]

\* envelope.GetPayload(config.PrivKeyPath)
GetPayloadCall ==
    /\ gp.pc = "call"
    /\ gp' = [gp EXCEPT !.pc = "done", !.out = GetPayload(gp.keys, gp.priv)]
    /\ UNCHANGED <<evars, uvars, hashAlgo, spc, cfg, sealed, sw, fcall>>

SpecGetPayload == GetPayloadInit /\ [][GetPayloadCall]_vars

\* a sealed key the private key at `path` unseals
Unsealable(k, path) ==
    LET pKey == LoadPrivateKey(path)
    IN  /\ pKey.err = Nil
        /\ pKey.kind = "rsa"
        /\ \E sym \in SymKeys : k = RSAEncrypt(pKey.owner, sym)
UnsealableKeys == {i \in 1..Len(gp.keys) : Unsealable(gp.keys[i], gp.priv)}
UpTo(n) == [i \in 1..n |-> i]

\* C10: with sealed keys in the trailer and a loadable private key, GetPayload tries
\* the keys in trailer order, goes on after a key that does not unseal, stops at the
\* first that does and uses the symmetric key it holds; it returns "not sealed for
\* the provided private key" exactly when no key of the trailer can be unsealed.
C10_KeyHunt ==
    (gp.pc = "done" /\ Len(gp.keys) >= 1 /\ LoadPrivateKey(gp.priv).err = Nil) =>
        /\ (gp.out.err = NotSealedForKey) <=> (UnsealableKeys = {})
        /\ UnsealableKeys = {} => gp.out.tried = UpTo(Len(gp.keys))
        /\ UnsealableKeys # {} =>
              LET first == CHOOSE i \in UnsealableKeys : \A j \in UnsealableKeys : i <= j
              IN  /\ gp.out.err = Nil
                  /\ gp.out.tried = UpTo(first)
                  /\ gp.out.symKey # <<>>
                  /\ gp.keys[first] = RSAEncrypt(LoadPrivateKey(gp.priv).owner,
                                                 gp.out.symKey[1])

\* C10 happens: the first key is for someone else, the second unseals, and of two
\* keys that unseal the earlier one is used
C10_Witness ==
    /\ gp.pc = "done"
    /\ gp.priv = "alice"
    /\ gp.keys = <<RSAEncrypt("bob", 11), RSAEncrypt("alice", 12)>>
    /\ gp.out.tried = <<1, 2>>
    /\ gp.out.symKey = <<12>>

(***************************************************************************)
(* Seal, then Unseal of what was sealed                                    *)
(***************************************************************************)
MaxFiles == 2        \* input files of a Seal run
MaxRecipients == 2   \* recipients of a Seal run

HashNames == {"SHA224", "SHA256", "SHA384", "SHA512"}
CompressionNames == {"gzip", "zlib", "zip", "flate"}
InputFiles ==
    {[path |-> <<"a.txt">>, content |-> <<1>>],
     [path |-> <<"b.txt">>, content |-> <<2>>],
     [path |-> <<"/", "a.txt">>, content |-> <<3>>],
     [path |-> <<".sealpack.toc", ".bak">>, content |-> <<4>>]}
FileLists ==
    {f \in SeqsUpTo(InputFiles, MaxFiles) : \A i, j \in 1..Len(f) : i # j => f[i] # f[j]}
RecipientLists == SeqsUpTo({"alice", "bob"}, MaxRecipients) \ {<<>>}

SealInit ==
    /\ EnvIdle
    /\ UnpackIdle
    /\ GetPayloadIdle
    /\ CallIdle
    /\ spc = "config"
    /\ sealed = NoSealed
    /\ sw = NoSealRun
    /\ \E h \in HashNames, c \in CompressionNames, f \in FileLists,
          r \in RecipientLists \cup {<<>>}, k \in {"alice", "mallory"} :
          cfg = [HashingAlgorithm |-> h, CompressionAlgorithm |-> c, Files |-> f,
                 Images |-> <<>>, Public |-> (r = <<>>), Recipients |-> r, PrivKeyPath |-> k,
                 UnsealHashingAlgorithm |-> h]

\* Seal(sealCfg)
SealStep ==
    /\ spc = "config"
    /\ \E k \in SymKeys : sealed' = Seal(cfg, k)
    /\ hashAlgo' = NewSignatureList(cfg.HashingAlgorithm)
    /\ spc' = "sealed"
    /\ UNCHANGED <<evars, uvars, cfg, gp, sw, fcall>>

\* Unseal up to the first TarReader.Next of Unpack: ParseEnvelope, GetPayload,
\* OpenArchiveReader, NewVerifier
UnsealOpen ==
    /\ spc = "sealed"
    /\ sealed.err = Nil
    /\ LET p == ParseEnvelope(sealed.bytes)
           keys == p.envel.ReceiverKeys
           g == GetPayload(keys, cfg.PrivKeyPath)
           d == IF Len(keys) < 1 \/ g.err # Nil THEN [err |-> Nil, stream |-> sealed.window]
                ELSE DecryptReader(sealed.window, g.symKey)
           z == ReadInitializeCompression(d.stream, p.envel.CompressionAlgo)
           err == IF p.err # "" THEN p.err
                  ELSE IF g.err # Nil THEN g.err
                  ELSE IF d.err # Nil THEN d.err
                  ELSE IF z.err # Nil THEN z.err
                  ELSE IF z.stream.layers # <<>> THEN "archive/tar: invalid tar header"
                  ELSE Nil
       IN  /\ gp' = [pc |-> "done", keys |-> keys, priv |-> cfg.PrivKeyPath, out |-> g]
           /\ IF err # Nil
              THEN /\ result' = err
                   /\ upc' = "done"
                   /\ UNCHANGED <<arc, hashAlgo>>
              ELSE /\ arc' = z.stream.tar
                   /\ hashAlgo' = NewSignatureList(cfg.UnsealHashingAlgorithm)
                   /\ upc' = "next"
                   /\ UNCHANGED result
    /\ spc' = "opened"
    /\ UNCHANGED <<evars, cfg, sealed, sw, fcall, target, idx, toc, tocSignature, unsafeTags,
                   Signatures, fs, images, wvars, hvars>>

SealUnsealStep ==
    \/ SealStep
    \/ UnsealOpen
    \/ UnpackStep

SpecSealUnseal == SealInit /\ [][SealUnsealStep]_vars

\* no step of the run failed for a reason outside the archive
ReliableRun == storeErrs = <<>> /\ result # "creating archive failed"
ForRecipient == cfg.Public \/ InList(cfg.PrivKeyPath, cfg.Recipients)

\* C2: for every hash algorithm, compression name, list of input files and recipient
\* list (or public mode), Unseal of what Seal wrote, with the same hashing algorithm,
\* the sender's public key and a recipient's private key, passes verification and
\* leaves each sealed file under the output path with its original content.
C2_SealUnsealRoundTrip ==
    (spc = "opened" /\ upc = "done" /\ ReliableRun /\ ForRecipient) =>
        /\ result = "ok"
        /\ \A i \in 1..Len(cfg.Files) :
              LET name == TrimPrefix(cfg.Files[i].path, <<"/">>)
              IN  name \in DOMAIN fs /\ fs[name] = cfg.Files[i].content

\* C2 fails here: a single input file whose name begins with the TOC's name is taken
\* for a TOC component, is neither written nor hashed, and verification fails
C2_Witness ==
    /\ spc = "opened" /\ upc = "done" /\ ReliableRun /\ ForRecipient
    /\ Len(cfg.Files) = 1
    /\ cfg.Files[1].path = <<".sealpack.toc", ".bak">>
    /\ result = TocsNotMatching
    /\ fs = NoFiles

(***************************************************************************)
(* Seal step by step: temp file, image temp directory, output sink         *)
(***************************************************************************)
MaxImages == 2       \* images of a Seal run

ImageLists ==
    {m \in SeqsUpTo({"alpine", "busybox"}, MaxImages) : \A i, j \in 1..Len(m) : i # j => m[i] # m[j]}

\* the tar entry of an input file (addFiles) and of a saved image (addImages)
FileEntry(f) == [Name |-> TrimPrefix(f.path, <<"/">>), Typeflag |-> TypeReg, Body |-> f.content]
ImageEntry(n) == IF n = "alpine" THEN ImgAlpine ELSE ImgBusybox

\* what AddContents has to add: first the files, then the images
SealItems(c) ==
    [i \in 1..(Len(c.Files) + Len(c.Images)) |->
        IF i <= Len(c.Files) THEN FileEntry(c.Files[i]) ELSE ImageEntry(c.Images[i - Len(c.Files)])]

\* the envelope Seal has built so far
SealEnvelope ==
    [HashAlgorithm |-> GetHashAlgorithm(cfg.HashingAlgorithm),
     CompressionAlgo |-> GetCompressionAlgoIndex(cfg.CompressionAlgorithm),
     PayloadLen |-> sw.PayloadLen,
     ReceiverKeys |-> sw.ReceiverKeys]

SealRunInit ==
    /\ EnvIdle
    /\ UnpackIdle
    /\ GetPayloadIdle
    /\ CallIdle
    /\ spc = "idle"
    /\ sealed = NoSealed
    /\ \E c \in CompressionNames, f \in FileLists, m \in ImageLists, p \in BOOLEAN,
          r \in RecipientLists \cup {<<>>} :
          cfg = [HashingAlgorithm |-> HashingAlgorithm, CompressionAlgorithm |-> c,
                 Files |-> f, Images |-> m, Public |-> p, Recipients |-> r,
                 PrivKeyPath |-> Sender, UnsealHashingAlgorithm |-> HashingAlgorithm]
    /\ sw = [NoSealRun EXCEPT !.pc = "prepare"]

SealReturn(step, err) == [sw EXCEPT !.pc = "returned", !.failed = step, !.err = err]

\* Seal: prepareSealing, the envelope, CreateArchiveWriter, NewSignatureList
SealPrepare ==
    /\ sw.pc = "prepare"
    /\ \E confOk \in BOOLEAN, k \in (IF cfg.Public THEN {0} ELSE SymKeys) :
         IF ~confOk
         THEN /\ sw' = SealReturn("prepare", "invalid configuration file provided")
              /\ UNCHANGED hashAlgo
         ELSE IF cfg.Public /\ Len(cfg.Recipients) > 0
         THEN /\ sw' = SealReturn("prepare", "cannot use -public with -recipient-pubkey")
              /\ UNCHANGED hashAlgo
         ELSE /\ sw' = [sw EXCEPT
                          !.pc = "contents",
                          !.w = CreateArchiveWriter(cfg.Public,
                                    GetCompressionAlgoIndex(cfg.CompressionAlgorithm)),
                          !.tmpExists = TRUE,
                          !.EncryptionKey = k]
              /\ hashAlgo' = NewSignatureList(cfg.HashingAlgorithm)
    /\ UNCHANGED <<evars, uvars, spc, cfg, sealed, gp, fcall>>

\* AddContents, one file (addFiles) or one image (addImages, SaveImage) per step;
\* an error ends Seal at once
SealAddContent ==
    /\ sw.pc = "contents"
    /\ sw.next <= Len(SealItems(cfg))
    /\ LET e == SealItems(cfg)[sw.next]
           stored == [sw EXCEPT !.tar = Append(@, e),
                                !.ledger = AddFile(@, hashAlgo, e.Name, e.Body),
                                !.w = WriteTar(@, EntrySize(e)),
                                !.next = @ + 1]
       IN  IF sw.next <= Len(cfg.Files)
           THEN \E outcome \in {"ok", "open", "store"} :
                sw' = CASE outcome = "open" -> SealReturn("contents", "failed reading file")
                        [] outcome = "store" ->
                              SealReturn("contents", "failed adding image to archive")
                        [] OTHER -> stored
           ELSE \E outcome \in {"ok", "mkdir", "pull", "store"} :
                sw' = CASE outcome = "mkdir" -> SealReturn("contents", "failed reading image")
                        [] outcome = "pull" ->
                              [SealReturn("contents", "failed reading image")
                                  EXCEPT !.imgDir = TRUE]
                        [] outcome = "store" ->
                              [SealReturn("contents", "failed adding image to archive")
                                  EXCEPT !.imgDir = TRUE, !.saved = @ + 1]
                        [] OTHER -> [stored EXCEPT !.imgDir = TRUE, !.saved = @ + 1]
    /\ UNCHANGED <<evars, uvars, hashAlgo, spc, cfg, sealed, gp, fcall>>

\* AddContents returned nil: _ = CleanupImages()
SealCleanupImages ==
    /\ sw.pc = "contents"
    /\ sw.next > Len(SealItems(cfg))
    /\ \E rmOk \in BOOLEAN :
         sw' = [sw EXCEPT !.pc = "toc",
                          !.imgDir = IF rmOk THEN FALSE ELSE @,
                          !.imgRm = IF rmOk THEN "removed" ELSE "failed"]
    /\ UNCHANGED <<evars, uvars, hashAlgo, spc, cfg, sealed, gp, fcall>>

\* arc.AddToc: signer, TOC entry, signature, signature entry
SealAddToc ==
    /\ sw.pc = "toc"
    /\ \E failAt \in {"none", "signer", "toc", "sign", "sig"} :
         LET all == AddToc(sw.tar, sw.ledger, Sender)
             tocOnly == Append(sw.tar, TocEntry(Bytes(sw.ledger)))
             tocSize == EntrySize(TocEntry(Bytes(sw.ledger)))
             sigSize == EntrySize(SigEntry(SignMessage(Sender, Bytes(sw.ledger))))
         IN  sw' = CASE failAt \in {"signer", "toc"} ->
                          SealReturn("toc", "seal: failed adding TOC")
                     [] failAt \in {"sign", "sig"} ->
                          [SealReturn("toc", "seal: failed adding TOC")
                              EXCEPT !.tar = tocOnly, !.w = WriteTar(@, tocSize)]
                     [] OTHER -> [sw EXCEPT !.pc = "finalize", !.tar = all,
                                            !.w = WriteTar(@, tocSize + sigSize)]
    /\ UNCHANGED <<evars, uvars, hashAlgo, spc, cfg, sealed, gp, fcall>>

\* envelope.PayloadLen, err = arc.Finalize()
SealFinalize ==
    /\ sw.pc = "finalize"
    /\ \E again \in BOOLEAN, failAt \in {"none", "tar", "compress", "encrypt", "stat"} :
         LET r == Finalize(sw.w, again, failAt)
         IN  sw' = IF r.err # Nil
                   THEN [SealReturn("finalize", "seal: failed finalizing archive")
                            EXCEPT !.w = r.w]
                   ELSE [sw EXCEPT !.pc = "keys", !.w = r.w, !.PayloadLen = r.size]
    /\ UNCHANGED <<evars, uvars, hashAlgo, spc, cfg, sealed, gp, fcall>>

\* if !sealCfg.Public { AddKeys(...) }
SealAddKeys ==
    /\ sw.pc = "keys"
    /\ IF cfg.Public
       THEN sw' = [sw EXCEPT !.pc = "output"]
       ELSE \E keyOk \in BOOLEAN :
            sw' = IF keyOk
                  THEN [sw EXCEPT !.pc = "output",
                                  !.ReceiverKeys = AddKeys(cfg.Recipients, sw.EncryptionKey)]
                  ELSE SealReturn("keys", "no such file")
    /\ UNCHANGED <<evars, uvars, hashAlgo, spc, cfg, sealed, gp, fcall>>

\* NewOutputFile(sealCfg.Output)
SealNewOutputFile ==
    /\ sw.pc = "output"
    /\ \E createOk \in BOOLEAN :
         sw' = IF createOk THEN [sw EXCEPT !.pc = "write", !.sinkExists = TRUE]
               ELSE SealReturn("output", "create failed")
    /\ UNCHANGED <<evars, uvars, hashAlgo, spc, cfg, sealed, gp, fcall>>

\* envelope.WriteOutput(out, arc): header, the temp file copied, the key trailer
SealWriteOutput ==
    /\ sw.pc = "write"
    /\ \E failAt \in {"none", "header", "copy", "sync"} :
         LET payload == PayloadBytes(sw.w.tmpSize)
             out == WriteOutput(SealEnvelope, payload)
         IN  sw' = CASE failAt = "header" -> SealReturn("write", "write failed")
                     [] failAt = "copy" ->
                          [SealReturn("write", "write failed")
                              EXCEPT !.sink = WriteHeader(SealEnvelope)]
                     [] failAt = "sync" \/ out.err # "" ->
                          [SealReturn("write", IF out.err # "" THEN out.err ELSE "sync failed")
                              EXCEPT !.sink = out.out, !.copied = Len(payload)]
                     [] OTHER -> [sw EXCEPT !.pc = "cleanup", !.sink = out.out,
                                            !.copied = Len(payload)]
    /\ UNCHANGED <<evars, uvars, hashAlgo, spc, cfg, sealed, gp, fcall>>

\* arc.Cleanup() and CleanupFileWriter (nothing to do for a local output path)
SealCleanup ==
    /\ sw.pc = "cleanup"
    /\ \E rmOk \in BOOLEAN :
         sw' = IF rmOk THEN [sw EXCEPT !.pc = "returned", !.tmpExists = FALSE]
               ELSE SealReturn("cleanup", "remove failed")
    /\ UNCHANGED <<evars, uvars, hashAlgo, spc, cfg, sealed, gp, fcall>>

SealRunStep ==
    \/ SealPrepare
    \/ SealAddContent
    \/ SealCleanupImages
    \/ SealAddToc
    \/ SealFinalize
    \/ SealAddKeys
    \/ SealNewOutputFile
    \/ SealWriteOutput
    \/ SealCleanup

SpecSeal == SealRunInit /\ [][SealRunStep]_vars

\* WriteOutput has written the whole artifact
SealWritten == sw.pc \in {"cleanup", "returned"} /\ sw.failed \in {"", "cleanup"}

\* C14: in every artifact Seal has written, the length Finalize returned, which is
\* the L of the header, is the number of bytes WriteOutput copied from the temp
\* file between the 13-byte header and the key trailer.
C14_PayloadLenIsWindowSize ==
    SealWritten =>
        /\ sw.PayloadLen = sw.copied
        /\ Take(sw.sink, HeaderLen) = WriteHeader(SealEnvelope)
        /\ Len(sw.sink) = HeaderLen + sw.PayloadLen + Len(WriteKeys(SealEnvelope).out)
        /\ ParseEnvelope(sw.sink).err = ""
        /\ ParseEnvelope(sw.sink).envel.PayloadLen = sw.copied

\* C14 happens: a sealed archive of a file and an image, compressed with gzip, whose
\* bytes reached the temp file only when the writers were closed
C14_Witness ==
    /\ SealWritten
    /\ ~cfg.Public
    /\ cfg.CompressionAlgorithm = "gzip"
    /\ Len(cfg.Files) = 1
    /\ Len(cfg.Images) = 1
    /\ Len(cfg.Recipients) = 2
    /\ sw.copied > CipherOverhead + CompressionOverhead(0)

\* C15: in every archive Seal has produced, the entries of the files and images come
\* first, in the order they were added, then `.sealpack.toc`, then
\* `.sealpack.toc.sig`, and nothing after them.
C15_TocAndSignatureLast ==
    SealWritten =>
        LET n == Len(sw.tar)
        IN  /\ n = Len(SealItems(cfg)) + 2
            /\ SubSeq(sw.tar, 1, n - 2) = SealItems(cfg)
            /\ sw.tar[n - 1] = TocEntry(Bytes(sw.ledger))
            /\ sw.tar[n] = SigEntry(SignMessage(Sender, Bytes(sw.ledger)))

\* C15 happens: two files and two images sealed, one of the files named like a TOC
C15_Witness ==
    /\ SealWritten
    /\ Len(cfg.Files) = 2
    /\ Len(cfg.Images) = 2
    /\ sw.tar[1].Name = <<".sealpack.toc", ".bak">>
    /\ Len(sw.tar) = 6

\* C16: when Seal returns because preparing, adding the contents, adding the TOC,
\* finalising or sealing the keys failed, the temp payload file is gone and the
\* output sink was not created.
C16_FailedSealLeavesNothing ==
    (sw.pc = "returned" /\ sw.failed \in {"prepare", "contents", "toc", "finalize", "keys"}) =>
        /\ ~sw.tmpExists
        /\ ~sw.sinkExists

\* C16 fails here: an input file could not be read, Seal returned the error and the
\* temp payload file is still there
C16_Witness ==
    /\ sw.pc = "returned"
    /\ sw.failed = "contents"
    /\ sw.err = "failed reading file"
    /\ sw.tmpExists
    /\ ~sw.sinkExists

\* C17: when Seal returns after it saved an image, the image temp directory is gone
\* (unless its removal itself failed), whether adding the contents succeeded or not.
C17_ImageDirRemoved ==
    (sw.pc = "returned" /\ sw.saved > 0 /\ sw.imgRm # "failed") => ~sw.imgDir

\* C17 fails here: the first image was saved, the second could not be pulled, and
\* Seal returned without calling CleanupImages
C17_Witness ==
    /\ sw.pc = "returned"
    /\ sw.saved = 1
    /\ sw.failed = "contents"
    /\ sw.err = "failed reading image"
    /\ sw.imgRm = "not called"
    /\ sw.imgDir

(***************************************************************************)
(* Seal and Unseal with hashing algorithms chosen independently            *)
(***************************************************************************)
\* the names a receiver may pass: the four available ones and one that is not
UnsealHashNames == HashNames \cup {"MD5"}

NegotiateInit ==
    /\ EnvIdle
    /\ UnpackIdle
    /\ GetPayloadIdle
    /\ CallIdle
    /\ spc = "config"
    /\ sealed = NoSealed
    /\ sw = NoSealRun
    /\ \E h \in HashNames, u \in UnsealHashNames, f \in FileLists, p \in BOOLEAN :
          /\ Len(f) >= 1
          /\ cfg = [HashingAlgorithm |-> h, CompressionAlgorithm |-> "gzip", Files |-> f,
                    Images |-> <<>>, Public |-> p,
                    Recipients |-> IF p THEN <<>> ELSE <<"alice">>,
                    PrivKeyPath |-> "alice", UnsealHashingAlgorithm |-> u]

SpecNegotiate == NegotiateInit /\ [][SealUnsealStep]_vars

\* Unseal got as far as Unpack: the envelope was parsed and the archive opened
UnpackStarted == spc = "opened" /\ arc # <<>>

\* C18: the hash algorithm with which Unseal computes its ledger is the one whose
\* code stands in the config byte of the envelope it parsed.
C18_LedgerHashIsEnvelopeHash ==
    UnpackStarted =>
        GetHashAlgorithm(hashAlgo) = ParseEnvelope(sealed.bytes).envel.HashAlgorithm

\* C18 fails here: sealed with SHA256, unsealed with the default SHA512; the ledger
\* is hashed with SHA512 although the envelope says SHA256, and verification of the
\* untouched archive fails
C18_Witness ==
    /\ UnpackStarted
    /\ cfg.HashingAlgorithm = "SHA256"
    /\ cfg.UnsealHashingAlgorithm = "SHA512"
    /\ ParseEnvelope(sealed.bytes).envel.HashAlgorithm = GetHashAlgorithm("SHA256")
    /\ hashAlgo = "SHA512"
    /\ upc = "done"
    /\ storeErrs = <<>>
    /\ result = TocsNotMatching

(***************************************************************************)
(* InitializeCompression on the write path and on the read path            *)
(***************************************************************************)
\* every index the three bits of the config byte can hold
CompressionIndices == 0..7

CompressInit ==
    /\ EnvIdle
    /\ UnpackIdle
    /\ SealIdle
    /\ GetPayloadIdle
    /\ \E i \in CompressionIndices, t \in SeqsUpTo(ContentChoices, MaxEntries) :
          fcall = [pc |-> "write", index |-> i, tar |-> t, written |-> Plain(<<>>),
                   read |-> [err |-> Nil, stream |-> Plain(<<>>)]]

\* CreateArchiveWriter(public, index): the tar written through the compress writer
CompressWrite ==
    /\ fcall.pc = "write"
    /\ fcall' = [fcall EXCEPT !.pc = "read",
                              !.written = WriteInitializeCompression(Plain(fcall.tar), fcall.index)]
    /\ UNCHANGED <<evars, uvars, hashAlgo, spc, cfg, sealed, gp, sw>>

\* OpenArchiveReader(r, index) on what was written
CompressRead ==
    /\ fcall.pc = "read"
    /\ fcall' = [fcall EXCEPT !.pc = "done",
                              !.read = ReadInitializeCompression(fcall.written, fcall.index)]
    /\ UNCHANGED <<evars, uvars, hashAlgo, spc, cfg, sealed, gp, sw>>

CompressNext == CompressWrite \/ CompressRead

SpecCompression == CompressInit /\ [][CompressNext]_vars

GzipOf(tar) == Wrap(Layer("gzip", 0), Plain(tar))

\* C19: for index 2 and for every index above 3, the write path emits a gzip stream
\* and the read path decodes the payload as gzip, which gives back the tar.
C19_ZipAndUnknownAreGzip ==
    (fcall.pc = "done" /\ fcall.index \notin {0, 1, 3}) =>
        /\ fcall.written = GzipOf(fcall.tar)
        /\ fcall.read = ReadInitializeCompression(fcall.written, 0)
        /\ fcall.read = [err |-> Nil, stream |-> Plain(fcall.tar)]

\* C19 fails here: with index 2 the tar is written as it is, the read path hands it
\* on as it is, and a gzip reader refuses it
C19_Witness ==
    /\ fcall.pc = "done"
    /\ fcall.index = 2
    /\ fcall.tar # <<>>
    /\ fcall.written = Plain(fcall.tar)
    /\ fcall.read = [err |-> Nil, stream |-> Plain(fcall.tar)]
    /\ ReadInitializeCompression(fcall.written, 0).err # Nil

(***************************************************************************)
(* FileSignatures.Equals on ledgers built by AddFile                       *)
(***************************************************************************)
MaxAdds == 2        \* AddFile calls per ledger

LedgerNames == {<<"a.txt">>, <<"b.txt">>, <<"a.txt", ".bak">>}
LedgerContents == {<<1>>, <<2>>}

LedgerInit ==
    /\ EnvIdle
    /\ UnpackIdle
    /\ SealIdle
    /\ GetPayloadIdle
    /\ fcall = [pc |-> "build", f |-> EmptyLedger, other |-> EmptyLedger,
                adds |-> <<0, 0>>, added |-> <<<<>>, <<>>>>, fwd |-> FALSE, bwd |-> FALSE,
                bytes |-> <<<<>>, <<>>>>]

\* AddFile(name, contents) on one of the two ledgers
LedgerAddFile ==
    /\ fcall.pc = "build"
    /\ \E which \in 1..2, n \in LedgerNames, c \in LedgerContents :
          /\ fcall.adds[which] < MaxAdds
          /\ fcall' = [fcall EXCEPT
                         !.f = IF which = 1 THEN AddFile(@, hashAlgo, n, c) ELSE @,
                         !.other = IF which = 2 THEN AddFile(@, hashAlgo, n, c) ELSE @,
                         !.adds[which] = @ + 1,
                         !.added[which] = Append(@, n)]
    /\ UNCHANGED <<evars, uvars, hashAlgo, spc, cfg, sealed, gp, sw>>

\* f.Equals(other) and other.Equals(f)
LedgerEquals ==
    /\ fcall.pc = "build"
    /\ fcall' = [fcall EXCEPT !.pc = "done",
                              !.fwd = Equals(fcall.f, fcall.other),
                              !.bwd = Equals(fcall.other, fcall.f)]
    /\ UNCHANGED <<evars, uvars, hashAlgo, spc, cfg, sealed, gp, sw>>

\* f.Bytes() and other.Bytes()
LedgerBytes ==
    /\ fcall.pc = "build"
    /\ fcall' = [fcall EXCEPT !.pc = "bytes",
                              !.bytes = <<Bytes(fcall.f), Bytes(fcall.other)>>]
    /\ UNCHANGED <<evars, uvars, hashAlgo, spc, cfg, sealed, gp, sw>>

LedgerNext == LedgerAddFile \/ LedgerEquals \/ LedgerBytes

SpecLedger == LedgerInit /\ [][LedgerNext]_vars

\* the two ledgers hold the same name-to-hash pairs
SamePairs == fcall.f = fcall.other

\* C20: Equals returns true exactly when the two ledgers hold the same set of
\* name-to-hash pairs, whichever of the two receives the call and in whatever order
\* the entries were added.
C20_EqualsIffSamePairs ==
    fcall.pc = "done" =>
        /\ fcall.fwd <=> SamePairs
        /\ fcall.bwd <=> SamePairs

\* C20 fails here: the receiver holds one entry, the other ledger the same entry and
\* one more; Equals returns true one way and false the other way
C20_Witness ==
    /\ fcall.pc = "done"
    /\ DOMAIN fcall.f = {<<"a.txt">>}
    /\ DOMAIN fcall.other = {<<"a.txt">>, <<"b.txt">>}
    /\ fcall.f[<<"a.txt">>] = fcall.other[<<"a.txt">>]
    /\ fcall.fwd
    /\ ~fcall.bwd

\* the lines of b are those of ledger f: one line per entry, names ascending
CanonicalFor(b, f) ==
    /\ Len(b) = Cardinality(DOMAIN f)
    /\ \A i \in 1..Len(b) : b[i].name \in DOMAIN f /\ b[i].hash = f[b[i].name]
    /\ \A i \in 1..(Len(b) - 1) : StrLess(b[i].name, b[i + 1].name)

\* C24: Bytes returns one name:digest line per entry of the ledger with the names in
\* ascending order, and two ledgers that hold the same pairs give the same bytes
\* in whatever order their entries were added.
C24_BytesIndependentOfOrder ==
    fcall.pc = "bytes" =>
        /\ CanonicalFor(fcall.bytes[1], fcall.f)
        /\ CanonicalFor(fcall.bytes[2], fcall.other)
        /\ SamePairs => fcall.bytes[1] = fcall.bytes[2]

\* C24 happens: the same two entries added in opposite orders, the second name
\* beginning with the first, and the bytes are the same
C24_Witness ==
    /\ fcall.pc = "bytes"
    /\ fcall.added = <<<<<<"a.txt", ".bak">>, <<"a.txt">>>>, <<<<"a.txt">>, <<"a.txt", ".bak">>>>>>
    /\ SamePairs
    /\ Len(fcall.bytes[1]) = 2
    /\ fcall.bytes[1] = fcall.bytes[2]
    /\ fcall.bytes[1][1].name = <<"a.txt">>

(***************************************************************************)
(* A sealed file altered between Seal and Unseal                           *)
(***************************************************************************)
\* one bit of a byte inverted
FlipBit(b) == (b + 128) % 256

\* the payload window with one byte altered: a byte of the body of tar entry i as
\* it stands in the window, or (i = 0) a byte of the tag the cipher appended
FlipPayloadByte(stream, i) ==
    IF i = 0
    THEN [stream EXCEPT !.mac = <<[@[1] EXCEPT !.key = FlipBit(@)]>>]
    ELSE [stream EXCEPT !.tar[i].Body[1] = FlipBit(@)]

\* the positions of the window FlipPayloadByte can alter
FlipPositions(stream) ==
    {i \in 1..Len(stream.tar) : stream.tar[i].Name \notin {TocFileName, TocSigFileName}
                                /\ Len(stream.tar[i].Body) > 0}
    \cup (IF stream.mac # <<>> THEN {0} ELSE {})

\* one byte inside the payload window of the sealed file is changed
TamperPayload ==
    /\ spc = "sealed"
    /\ sealed.err = Nil
    /\ ~sealed.altered
    /\ \E i \in FlipPositions(sealed.window) :
          sealed' = [sealed EXCEPT
                       !.window = FlipPayloadByte(sealed.window, i),
                       !.bytes = IF i = 0 THEN @
                                 ELSE [@ EXCEPT ![HeaderLen + i] = FlipBit(@)],
                       !.altered = TRUE]
    /\ UNCHANGED <<evars, uvars, hashAlgo, spc, cfg, gp, sw, fcall>>

TamperStep ==
    \/ SealStep
    \/ TamperPayload
    \/ UnsealOpen
    \/ UnpackStep

SpecTamper == SealInit /\ [][TamperStep]_vars

KeyLens == {0, 8, 2040, 2048}
MakeKey(n, seed) == [i \in 1..n |-> (seed + i) % 256]
KeyChoices == {MakeKey(n, 6) : n \in KeyLens}

\* every hash code and compression index with at most one key, and every key list
\* with the smallest and largest hash code and compression index
EnvelopeChoices ==
    [HashAlgorithm : 0..31, CompressionAlgo : 0..7,
     PayloadLen : {0, MaxPayload}, ReceiverKeys : SeqsUpTo(KeyChoices, 1)]
    \cup [HashAlgorithm : {0, 31}, CompressionAlgo : {0, 7},
          PayloadLen : {0, MaxPayload}, ReceiverKeys : SeqsUpTo(KeyChoices, MaxKeys)]

EnvInit ==
    /\ epc = "init"
    /\ envel \in EnvelopeChoices
    /\ wire = [err |-> "", out |-> <<>>]
    /\ parsed = [err |-> "", envel |-> NoEnvelope]
    /\ UnpackIdle
    /\ SealIdle
    /\ GetPayloadIdle
    /\ CallIdle

\* Envelope.WriteOutput
EnvWriteOutput ==
    /\ epc = "init"
    /\ wire' = WriteOutput(envel, PayloadBytes(envel.PayloadLen))
    /\ epc' = "written"
    /\ UNCHANGED <<envel, parsed, uvars, svars>>

\* ParseEnvelope on the written file
EnvParseEnvelope ==
    /\ epc \in {"written", "cut"}
    /\ wire.err = ""
    /\ parsed' = ParseEnvelope(wire.out)
    /\ epc' = "parsed"
    /\ UNCHANGED <<envel, wire, uvars, svars>>

EnvNext == EnvWriteOutput \/ EnvParseEnvelope

SpecEnvelope == EnvInit /\ [][EnvNext]_vars

(***************************************************************************)
(* Properties of the envelope codec                                        *)
(***************************************************************************)
MaxKeyUnits == 255      \* the largest key length, in 8-byte units, one byte can hold

RoundTrips == parsed.err = "" /\ parsed.envel = envel
KeysFitOneByte ==
    \A i \in 1..Len(envel.ReceiverKeys) : Len(envel.ReceiverKeys[i]) \div 8 <= MaxKeyUnits

SupportedHashCodes == {GetHashAlgorithm(n) : n \in HashNames}

\* C13: ParseEnvelope returns an error for every file whose config byte holds, in
\* its low five bits, a hash code other than those of SHA-224, SHA-256, SHA-384
\* and SHA-512.
C13_UnknownHashCodeRejected ==
    (epc = "parsed" /\ wire.out[5] % 32 \notin SupportedHashCodes) => parsed.err # ""

\* C13 fails here: hash code 0 (no hash at all) is parsed without an error and
\* handed back in the envelope
C13_Witness ==
    /\ epc = "parsed"
    /\ wire.out[5] % 32 = 0
    /\ parsed.err = ""
    /\ parsed.envel.HashAlgorithm = 0
    /\ parsed.envel.HashAlgorithm \notin SupportedHashCodes

(***************************************************************************)
(* Truncated files: ParseEnvelope on a prefix of what was written          *)
(***************************************************************************)
\* keys short enough that every cut point of the trailer is tried
ShortKeyChoices == {MakeKey(n, 6) : n \in {0, 8, 16}}

ShortEnvelopeChoices ==
    [HashAlgorithm : {0, 7, 31}, CompressionAlgo : {0, 7},
     PayloadLen : {0, MaxPayload}, ReceiverKeys : SeqsUpTo(ShortKeyChoices, MaxKeys)]

TruncateInit ==
    /\ epc = "init"
    /\ envel \in ShortEnvelopeChoices
    /\ wire = [err |-> "", out |-> <<>>]
    /\ parsed = [err |-> "", envel |-> NoEnvelope]
    /\ UnpackIdle
    /\ SealIdle
    /\ GetPayloadIdle
    /\ CallIdle

\* the file ends early: only its first n bytes reach ParseEnvelope
EnvTruncate ==
    /\ epc = "written"
    /\ wire.err = ""
    /\ \E n \in 0..(Len(wire.out) - 1) : wire' = [wire EXCEPT !.out = Take(@, n)]
    /\ epc' = "cut"
    /\ UNCHANGED <<envel, parsed, uvars, svars>>

TruncateNext == EnvWriteOutput \/ EnvTruncate \/ EnvParseEnvelope

SpecTruncate == TruncateInit /\ [][TruncateNext]_vars

\* the file as written, and where the records of its trailer end
Written == WriteOutput(envel, PayloadBytes(envel.PayloadLen)).out
RECURSIVE RecordEnd(_)
RecordEnd(i) ==
    IF i = 0 THEN HeaderLen + envel.PayloadLen
    ELSE RecordEnd(i - 1) + 1 + Len(envel.ReceiverKeys[i])
CutInHeader == Len(wire.out) < HeaderLen
CutInPayload == Len(wire.out) >= HeaderLen /\ Len(wire.out) < HeaderLen + envel.PayloadLen
CutInKeyRecord ==
    \E i \in 1..Len(envel.ReceiverKeys) :
        RecordEnd(i - 1) < Len(wire.out) /\ Len(wire.out) < RecordEnd(i)
RejectedAsEOF == parsed.err = "EOF" /\ parsed.envel = NoEnvelope

\* C12: ParseEnvelope returns an end-of-file error and no envelope for every file
\* that ends inside the 13-byte header, inside the announced payload bytes, or
\* inside a key record of the trailer.
C12_TruncatedIsEOF ==
    (epc = "parsed" /\ (CutInHeader \/ CutInPayload \/ CutInKeyRecord)) => RejectedAsEOF

\* C12 fails here: the file ends after the first byte of the length field, that
\* byte is zero, and ParseEnvelope returns an envelope with an empty payload
C12_Witness ==
    /\ epc = "parsed"
    /\ wire.out = EnvelopeMagicBytes \o <<7, 0>>
    /\ CutInHeader
    /\ parsed.err = ""
    /\ parsed.envel.PayloadLen = 0
    /\ parsed.envel.ReceiverKeys = <<>>

(***************************************************************************)
(* storeContents: an input file is hashed, then written into the tar       *)
(***************************************************************************)
\* what an input file may hold: up to MaxChunks chunks
StoreContents == SeqsUpTo({1, 2}, MaxChunks)

StoreInit ==
    /\ EnvIdle
    /\ UnpackIdle
    /\ SealIdle
    /\ GetPayloadIdle
    /\ \E c \in StoreContents :
          fcall = [pc |-> "hash", name |-> <<"a.txt">>, file |-> c, rewritten |-> FALSE,
                   ledger |-> EmptyLedger, size |-> 0, tar |-> <<>>, err |-> Nil]

\* storeContents: inFile.Seek(0, 0), signatures.AddFileFromReader(filename, inFile):
\* the file is read to its end into the hasher
StoreHash ==
    /\ fcall.pc = "hash"
    /\ \E ok \in BOOLEAN :
         fcall' = IF ok
                  THEN [fcall EXCEPT !.pc = "stat",
                                     !.ledger = AddFile(@, hashAlgo, fcall.name, fcall.file)]
                  ELSE [fcall EXCEPT !.pc = "done", !.err = "failed hashing image"]
    /\ UNCHANGED <<evars, uvars, hashAlgo, spc, cfg, sealed, gp, sw>>

\* WriteToArchive: contents.Stat(), tarWriter.WriteHeader with Size: info.Size()
StoreStat ==
    /\ fcall.pc = "stat"
    /\ \E ok \in BOOLEAN :
         fcall' = IF ok
                  THEN [fcall EXCEPT !.pc = "copy", !.size = Len(fcall.file),
                                     !.tar = <<[Name |-> fcall.name, Typeflag |-> TypeReg,
                                                Body |-> <<>>]>>]
                  ELSE [fcall EXCEPT !.pc = "done", !.err = "failed adding image to archive"]
    /\ UNCHANGED <<evars, uvars, hashAlgo, spc, cfg, sealed, gp, sw>>

\* WriteToArchive: contents.Seek(0, 0), io.CopyN(arc.tarWriter, contents, info.Size()),
\* Flush: the file is read a second time, up to the size taken before
StoreCopy ==
    /\ fcall.pc = "copy"
    /\ fcall' = IF Len(fcall.file) < fcall.size
                THEN [fcall EXCEPT !.pc = "done", !.tar[1].Body = fcall.file,
                                   !.err = "failed adding image to archive"]
                ELSE [fcall EXCEPT !.pc = "done", !.tar[1].Body = Take(fcall.file, fcall.size)]
    /\ UNCHANGED <<evars, uvars, hashAlgo, spc, cfg, sealed, gp, sw>>

\* another process rewrites the input file while storeContents works on it
StoreFileRewritten ==
    /\ fcall.pc \in {"hash", "stat", "copy"}
    /\ ~fcall.rewritten
    /\ \E c \in StoreContents \ {fcall.file} :
          fcall' = [fcall EXCEPT !.file = c, !.rewritten = TRUE]
    /\ UNCHANGED <<evars, uvars, hashAlgo, spc, cfg, sealed, gp, sw>>

StoreNext == StoreHash \/ StoreStat \/ StoreCopy \/ StoreFileRewritten

SpecStore == StoreInit /\ [][StoreNext]_vars

StoredEntry == fcall.tar[1]

\* C21: when storeContents has added an entry, the digest the ledger holds under the
\* entry's name is the digest of the bytes written into the tar entry, whatever
\* happened to the input file meanwhile.
C21_LedgerDigestIsOfArchivedBytes ==
    (fcall.pc = "done" /\ fcall.err = Nil) =>
        fcall.ledger[fcall.name] = HashSum(hashAlgo, StoredEntry.Body)

\* C21 fails here: the file was rewritten, with the same length, after it had been
\* hashed and before it was copied; the entry holds the new bytes, the ledger the
\* digest of the old ones, and storeContents returned nil
C21_Witness ==
    /\ fcall.pc = "done"
    /\ fcall.err = Nil
    /\ fcall.rewritten
    /\ Len(StoredEntry.Body) = fcall.size
    /\ fcall.size = MaxChunks
    /\ fcall.ledger[fcall.name] # HashSum(hashAlgo, StoredEntry.Body)

(***************************************************************************)
(* The containerd client of one invocation (containers.go): importLocal    *)
(* for every image of the archive, then RemoveAll from Verify              *)
(***************************************************************************)
\* the package variables before the first use
NoClient == [containerDClient |-> "nil", containerDContext |-> FALSE, opened |-> 0]

\* getContainerDClient: the client and context it returns and the package variables
\* it leaves; failAt names the step that fails on the first use ("none": no step)
getContainerDClient(c, failAt) ==
    IF c.containerDContext THEN [vars |-> c, client |-> c.containerDClient, err |-> Nil]
    ELSE CASE failAt \in {"socket", "new"} ->
                [vars |-> c, client |-> "nil", err |-> "no client"]
           [] failAt \in {"list", "namespace"} ->
                [vars |-> [c EXCEPT !.containerDClient = "open", !.opened = @ + 1],
                 client |-> "nil", err |-> "invalid namespace"]
           [] OTHER ->
                [vars |-> [containerDClient |-> "open", containerDContext |-> TRUE,
                           opened |-> c.opened + 1],
                 client |-> "open", err |-> Nil]

ClientFailures == {"none", "socket", "new", "list", "namespace"}

ClientInit ==
    /\ EnvIdle
    /\ UnpackIdle
    /\ SealIdle
    /\ GetPayloadIdle
    /\ \E m \in SeqsUpTo({"alpine", "busybox"}, MaxEntries) :
          fcall = [pc |-> "unpack", pkg |-> NoClient, images |-> m, next |-> 1,
                   uses |-> <<>>, unsafeTags |-> <<>>, err |-> Nil]

\* storeImage with importLocal for the next image entry: the client is fetched,
\* GetImage and Import use it, then it is closed
ClientImportLocal ==
    /\ fcall.pc = "unpack"
    /\ fcall.next <= Len(fcall.images)
    /\ \E failAt \in ClientFailures, importOk \in BOOLEAN, newImport \in BOOLEAN,
          closeOk \in BOOLEAN :
         LET g == getContainerDClient(fcall.pkg, failAt)
             tag == NewTag(ImageName(fcall.images[fcall.next]))
             used == Append(fcall.uses, [op |-> "import", tag |-> tag, client |-> g.client])
             closed == [g.vars EXCEPT !.containerDClient = "closed"]
         IN  fcall' =
               IF g.err # Nil
               THEN [fcall EXCEPT !.pc = "done", !.pkg = g.vars, !.err = g.err]
               ELSE IF ~importOk
               THEN [fcall EXCEPT !.pc = "done", !.pkg = g.vars, !.uses = used,
                                  !.err = "import failed"]
               ELSE IF newImport
               THEN [fcall EXCEPT !.pkg = closed, !.uses = used, !.next = @ + 1,
                                  !.unsafeTags = Append(@, tag)]
               ELSE IF closeOk
               THEN [fcall EXCEPT !.pkg = closed, !.uses = used, !.next = @ + 1]
               ELSE [fcall EXCEPT !.pc = "done", !.pkg = closed, !.uses = used,
                                  !.err = "close failed"]
    /\ UNCHANGED <<evars, uvars, hashAlgo, spc, cfg, sealed, gp, sw>>

\* Verify at the end of the archive; when the signature does not verify it calls
\* RemoveAll(unsafeTags), which fetches the client for the first tag and deletes
ClientRemoveAll ==
    /\ fcall.pc = "unpack"
    /\ fcall.next > Len(fcall.images)
    /\ \E sigOk \in BOOLEAN, failAt \in ClientFailures :
         LET g == getContainerDClient(fcall.pkg, failAt)
         IN  fcall' =
               IF sigOk THEN [fcall EXCEPT !.pc = "done"]
               ELSE IF fcall.unsafeTags = <<>>
               THEN [fcall EXCEPT !.pc = "done", !.err = "crypto/rsa: verification error"]
               ELSE IF g.err # Nil
               THEN [fcall EXCEPT !.pc = "done", !.pkg = g.vars, !.err = g.err]
               ELSE [fcall EXCEPT !.pc = "done", !.pkg = g.vars,
                                  !.uses = Append(@, [op |-> "delete", tag |-> fcall.unsafeTags[1],
                                                      client |-> g.client]),
                                  !.err = "crypto/rsa: verification error"]
    /\ UNCHANGED <<evars, uvars, hashAlgo, spc, cfg, sealed, gp, sw>>

ClientNext == ClientImportLocal \/ ClientRemoveAll

SpecClient == ClientInit /\ [][ClientNext]_vars

\* C22: the client is opened at most once in an invocation, and every import and
\* every rollback deletion is handed a client that is open.
C22_ClientOpenWhenUsed ==
    /\ fcall.pkg.opened <= 1
    /\ \A i \in 1..Len(fcall.uses) : fcall.uses[i].client = "open"

\* C22 fails here: the first import closed the cached client, and both the import
\* of the second image and the deletion in the rollback were handed the closed one
C22_Witness ==
    /\ fcall.pc = "done"
    /\ fcall.pkg.opened = 1
    /\ Len(fcall.uses) = 3
    /\ fcall.uses[1].op = "import" /\ fcall.uses[1].client = "open"
    /\ fcall.uses[2].op = "import" /\ fcall.uses[2].client = "closed"
    /\ fcall.uses[3].op = "delete" /\ fcall.uses[3].client = "closed"

(***************************************************************************)
(* ParseContainerImage (containers.go); strings are sequences of characters *)
(***************************************************************************)
MaxRefLen == 5      \* pieces of an image reference

DefaultRegistry == <<"docker.io">>
OCISuffix == <<".", "o", "c", "i">>
Latest == <<"latest">>

\* strings.Index(s, c) + 1: the position of the first c in s, 0 if there is none
Index(s, c) ==
    IF \E i \in 1..Len(s) : s[i] = c
    THEN CHOOSE i \in 1..Len(s) : s[i] = c /\ \A j \in 1..(i - 1) : s[j] # c
    ELSE 0

\* strings.LastIndex(s, c) + 1
LastIndex(s, c) ==
    IF \E i \in 1..Len(s) : s[i] = c
    THEN CHOOSE i \in 1..Len(s) : s[i] = c /\ \A j \in (i + 1)..Len(s) : s[j] # c
    ELSE 0

RECURSIVE Split(_, _)
\* strings.Split(s, c)
Split(s, c) ==
    IF Index(s, c) = 0 THEN <<s>>
    ELSE <<Take(s, Index(s, c) - 1)>> \o Split(Drop(s, Index(s, c)), c)

\* strings.TrimSuffix
TrimSuffix(s, suffix) ==
    IF Len(s) >= Len(suffix) /\ SubSeq(s, Len(s) - Len(suffix) + 1, Len(s)) = suffix
    THEN Take(s, Len(s) - Len(suffix))
    ELSE s

\* regPattern.FindString(name) != "" for ^([^/]+(\.[^/]+)+)/ : the text before the
\* first "/" holds a dot with at least one character on either side
RegDomainFound(name) ==
    LET firstSlash == Index(name, "/")
    IN  /\ firstSlash > 0
        /\ \E i \in 2..(firstSlash - 2) : name[i] = "."

\* ParseContainerImage
ParseContainerImage(ref) ==
    LET name == TrimPrefix(ref, <<"/">>)
        found == RegDomainFound(name)
        firstSlash == Index(name, "/")
        rest == IF found THEN Drop(name, firstSlash) ELSE name
        parts == Split(TrimSuffix(rest, OCISuffix), ":")
        imgParts == IF Len(parts) < 2 THEN Append(parts, Latest) ELSE parts
    IN  [Registry |-> IF found THEN Take(name, firstSlash - 1) ELSE DefaultRegistry,
         Name |-> imgParts[1],
         Tag |-> imgParts[2]]

\* the pieces references are put together from
RefPieces == {<<"/">>, <<".">>, <<":">>, <<"a">>, OCISuffix}

RECURSIVE Concat(_)
Concat(ps) == IF ps = <<>> THEN <<>> ELSE Head(ps) \o Concat(Tail(ps))

References == {Concat(ps) : ps \in SeqsUpTo(RefPieces, MaxRefLen)}

ParseInit ==
    /\ EnvIdle
    /\ UnpackIdle
    /\ SealIdle
    /\ GetPayloadIdle
    /\ \E r \in References :
          fcall = [pc |-> "call", ref |-> r,
                   out |-> [Registry |-> <<>>, Name |-> <<>>, Tag |-> <<>>]]

\* ParseContainerImage(name)
ParseCall ==
    /\ fcall.pc = "call"
    /\ fcall' = [fcall EXCEPT !.pc = "done", !.out = ParseContainerImage(fcall.ref)]
    /\ UNCHANGED <<evars, uvars, hashAlgo, spc, cfg, sealed, gp, sw>>

SpecParseImage == ParseInit /\ [][ParseCall]_vars

\* the reference without one leading "/", its first path segment, and what the
\* statement takes for registry, name and tag
Stripped == TrimPrefix(fcall.ref, <<"/">>)
FirstSegment ==
    IF Index(Stripped, "/") = 0 THEN Stripped ELSE Take(Stripped, Index(Stripped, "/") - 1)
SegmentIsRegistry == Index(Stripped, "/") > 0 /\ Index(FirstSegment, ".") > 0
Remaining == IF SegmentIsRegistry THEN Drop(Stripped, Index(Stripped, "/")) ELSE Stripped

\* C23: the registry is the first path segment exactly when that segment contains
\* a dot and docker.io otherwise; the tag is the text after the last ":" of the
\* remaining name, latest if it has no ":"; the name is everything before that ":".
C23_RegistryNameTag ==
    fcall.pc = "done" =>
        /\ fcall.out.Registry = IF SegmentIsRegistry THEN FirstSegment ELSE DefaultRegistry
        /\ fcall.out.Tag = IF LastIndex(Remaining, ":") = 0 THEN Latest
                           ELSE Drop(Remaining, LastIndex(Remaining, ":"))
        /\ fcall.out.Name = IF LastIndex(Remaining, ":") = 0 THEN Remaining
                            ELSE Take(Remaining, LastIndex(Remaining, ":") - 1)

\* C23 fails here: a reference with two ":" and no registry; the tag returned is the
\* text between the two, and what follows the last ":" is dropped
C23_Witness ==
    /\ fcall.pc = "done"
    /\ fcall.ref = <<"a", ":", "a", ":", "a">>
    /\ fcall.out = [Registry |-> DefaultRegistry, Name |-> <<"a">>, Tag |-> <<"a">>]
    /\ Take(fcall.ref, LastIndex(fcall.ref, ":") - 1) = <<"a", ":", "a">>

(***************************************************************************)
(* Archives without a TOC or without a TOC signature                       *)
(***************************************************************************)
\* Verify ran on an archive that lacked one of the two TOC components
TocComponentMissing == VerifyDone /\ (toc = NilBuffer \/ tocSignature = NilBuffer)

\* C27: when the tar stream had no `.sealpack.toc` entry or no `.sealpack.toc.sig`
\* entry, Unpack ends with one of the verification errors Verify returns: it
\* neither reports success nor ends abnormally.
C27_MissingTocIsVerificationError ==
    TocComponentMissing => result \in {TocsNotMatching, SigError}

\* C27 fails here: the archive holds a file and a signature but no TOC; Verify
\* reads the nil TOC buffer and the program panics
C27_Witness ==
    /\ TocComponentMissing
    /\ toc = NilBuffer
    /\ tocSignature # NilBuffer
    /\ DOMAIN fs # {}
    /\ result = Panic
    /\ ~rollback.tagsCalled

(***************************************************************************)
(* extractContentFile: the main flow and its worker both come to an end    *)
(***************************************************************************)
\* untouched archives of up to MaxEntries content entries
ExtractInit ==
    /\ EnvIdle
    /\ SealIdle
    /\ GetPayloadIdle
    /\ CallIdle
    /\ hashAlgo = NewSignatureList(HashingAlgorithm)
    /\ \E contents \in SeqsUpTo(ContentChoices, MaxEntries) :
          arc = BuildArchive(contents, "none")
    /\ target \in {LocalRegistry, RemoteRegistry}
    /\ images = NoImages
    /\ upc = "next"
    /\ UnpackFresh

\* the steps of the goroutine that called Unpack, and those of the worker goroutine
MainStep == UnpackNext \/ MainRead \/ MainRecv \/ UnpackVerify
WorkerStep ==
    \/ WorkerStart
    \/ WorkerRead
    \/ WorkerAck
    \/ WorkerFinish
    \/ WorkerReturn
    \/ WorkerClose
    \/ WorkerSend

\* the Go scheduler runs every goroutine that is not blocked
SpecExtract ==
    /\ ExtractInit
    /\ [][UnpackStep]_vars
    /\ WF_vars(MainStep)
    /\ WF_vars(WorkerStep)

InExtractContentFile == upc \in {"hash", "recv"}
WorkerRunning == wpc \notin {"idle", "done"}

\* C25: whenever the main flow is inside extractContentFile it leaves it, and
\* whenever the worker goroutine runs it comes to its end: no pipe write, pipe
\* read, send or receive stays blocked for ever, whether the extractor succeeds,
\* fails at once or fails part way through the entry.
C25_ExtractAndWorkerTerminate ==
    /\ InExtractContentFile ~> ~InExtractContentFile
    /\ WorkerRunning ~> (wpc = "done")

\* C25 happens: writing the file failed after its first chunk; the worker sent the
\* error, closed the pipe, sent the result of Close into the slot the main flow
\* had emptied and ended, and the main flow returned the error
C25_Witness ==
    /\ wpc = "done"
    /\ upc = "done"
    /\ werr = "write failed"
    /\ result = "write failed"
    /\ wpos < Len(arc[idx].Body)
    /\ pipeClosed
    /\ errCh = <<Nil>>

(***************************************************************************)
(* Recipient keys of a sealed artifact and encryption of its payload       *)
(***************************************************************************)
\* the payload in the temp file went through the encryption writer
PayloadEncrypted == ~sw.w.public /\ sw.w.encCloses > 0

\* the key trailer as ParseEnvelope reads it from the artifact
TrailerKeys == ParseEnvelope(sw.sink).envel.ReceiverKeys

\* C26: an artifact Seal has written has no recipient key in its trailer exactly
\* when its payload is not encrypted, so that GetPayload, which takes an artifact
\* without keys for a public one, never hands on an encrypted payload as it is.
C26_NoKeysIffUnencrypted ==
    SealWritten => ((Len(TrailerKeys) = 0) <=> ~PayloadEncrypted)

\* C26 fails here: Seal without -public and without a recipient succeeds; the
\* payload is encrypted, the trailer is empty, and GetPayload returns no error
\* and no key, which is the public path
C26_Witness ==
    /\ SealWritten
    /\ sw.failed = ""
    /\ ~cfg.Public
    /\ cfg.Recipients = <<>>
    /\ Len(cfg.Files) = 1
    /\ PayloadEncrypted
    /\ sw.PayloadLen >= CipherOverhead
    /\ TrailerKeys = <<>>
    /\ GetPayload(TrailerKeys, "alice") = [err |-> Nil, symKey |-> <<>>, tried |-> <<>>]

(***************************************************************************)
(* ReadArchive.extract: where the files and directories of an entry go.    *)
(* A path is its list of components and whether it starts at the root.     *)
(***************************************************************************)
MaxDepth == 3       \* components of an entry name

\* filepath.Clean, one component at a time: "." is dropped, ".." takes back the
\* component before it, is dropped at the root and kept at the start of a
\* relative path
CleanStep(abs, done, c) ==
    IF c = "." THEN done
    ELSE IF c # ".." THEN Append(done, c)
    ELSE IF done # <<>> /\ done[Len(done)] # ".." THEN Take(done, Len(done) - 1)
    ELSE IF abs THEN done
    ELSE Append(done, c)

RECURSIVE CleanFrom(_, _, _)
CleanFrom(abs, done, comps) ==
    IF comps = <<>> THEN done
    ELSE CleanFrom(abs, CleanStep(abs, done, Head(comps)), Tail(comps))

\* filepath.Join(dir, name): the elements joined and cleaned
Join(dir, name) == [abs |-> dir.abs, comps |-> CleanFrom(dir.abs, <<>>, dir.comps \o name)]

\* filepath.Dir of a clean path
Dir(p) == [p EXCEPT !.comps = IF @ = <<>> THEN @ ELSE Take(@, Len(@) - 1)]

\* ReadArchive.extract with storeFile: the directory MkdirAll is called with and the
\* file os.Create is called with (none for images and TOC components)
Extract(outputPath, name) ==
    LET fullFile == Join(outputPath, name)
    IN  [mkdir |-> IF name[1] # ".images" THEN <<Dir(fullFile)>> ELSE <<>>,
         create |-> IF name[1] \notin {".images", ".sealpack.toc"} THEN <<fullFile>> ELSE <<>>]

NameComponents == {"..", ".", "a", ".images", ".sealpack.toc"}
EntryNames == SeqsUpTo(NameComponents, MaxDepth) \ {<<>>}
OutputPaths == {[abs |-> FALSE, comps |-> <<"out">>],
                [abs |-> TRUE, comps |-> <<"srv", "out">>]}

ExtractPathInit ==
    /\ EnvIdle
    /\ UnpackIdle
    /\ SealIdle
    /\ GetPayloadIdle
    /\ \E o \in OutputPaths, n \in EntryNames :
          fcall = [pc |-> "call", OutputPath |-> o, name |-> n,
                   out |-> [mkdir |-> <<>>, create |-> <<>>]]

\* arc.extract(h, verifier) for an entry of that name
ExtractPathCall ==
    /\ fcall.pc = "call"
    /\ fcall' = [fcall EXCEPT !.pc = "done", !.out = Extract(fcall.OutputPath, fcall.name)]
    /\ UNCHANGED <<evars, uvars, hashAlgo, spc, cfg, sealed, gp, sw>>

SpecExtractPath == ExtractPathInit /\ [][ExtractPathCall]_vars

\* path p is the directory dir or lies below it
Inside(dir, p) ==
    /\ p.abs = dir.abs
    /\ Len(p.comps) >= Len(dir.comps)
    /\ Take(p.comps, Len(dir.comps)) = dir.comps

\* C28: the directory extract creates for an entry and the file it creates for it
\* lie inside the output path, whatever the entry is called.
C28_CreatedUnderOutputPath ==
    fcall.pc = "done" =>
        /\ \A i \in 1..Len(fcall.out.mkdir) : Inside(fcall.OutputPath, fcall.out.mkdir[i])
        /\ \A i \in 1..Len(fcall.out.create) : Inside(fcall.OutputPath, fcall.out.create[i])

\* C28 fails here: the entry `../../a` with output path `out` is created as `../a`,
\* outside the output path
C28_Witness ==
    /\ fcall.pc = "done"
    /\ fcall.OutputPath = [abs |-> FALSE, comps |-> <<"out">>]
    /\ fcall.name = <<"..", "..", "a">>
    /\ fcall.out.create = <<[abs |-> FALSE, comps |-> <<"..", "a">>]>>
    /\ fcall.out.mkdir = <<[abs |-> FALSE, comps |-> <<"..">>]>>

(***************************************************************************)
(* AddKeys for RSA keys of several sizes, then WriteKeys                   *)
(***************************************************************************)
\* modulus sizes in bytes: 1024, 1032, 2048, 4096, 16320 and 16384 bits
RSAKeySizes == {128, 129, 256, 512, 2040, 2048}

\* what LoadPublicKey may return for a recipient
PublicKeys ==
    [kind : {"rsa"}, size : RSAKeySizes] \cup {[kind |-> "ecdsa", size |-> 0]}

\* rsa.EncryptPKCS1v15: a ciphertext as long as the modulus
EncryptPKCS1v15(pub, plainKey) == MakeKey(pub.size, plainKey)

RECURSIVE AddKeysFrom(_, _, _, _)
\* the loop of AddKeys over the recipients' public keys
AddKeysFrom(pubKeys, plainKey, i, keys) ==
    IF i > Len(pubKeys) THEN [err |-> Nil, ReceiverKeys |-> keys]
    ELSE IF pubKeys[i].kind # "rsa"
    THEN [err |-> "encryption key cannot be used for encryption", ReceiverKeys |-> keys]
    ELSE LET sealedKey == EncryptPKCS1v15(pubKeys[i], plainKey)
         IN  IF Len(sealedKey) # pubKeys[i].size
             THEN [err |-> "key size", ReceiverKeys |-> Append(keys, sealedKey)]
             ELSE AddKeysFrom(pubKeys, plainKey, i + 1, Append(keys, sealedKey))

AddKeysInit ==
    /\ EnvIdle
    /\ UnpackIdle
    /\ SealIdle
    /\ GetPayloadIdle
    /\ \E r \in SeqsUpTo(PublicKeys, MaxRecipients), k \in SymKeys :
          fcall = [pc |-> "keys", pubKeys |-> r, plainKey |-> k,
                   added |-> [err |-> Nil, ReceiverKeys |-> <<>>],
                   written |-> [err |-> "", out |-> <<>>]]

\* AddKeys(recipientPubKeyPaths, &envelope, plainKey)
AddKeysCall ==
    /\ fcall.pc = "keys"
    /\ fcall' = [fcall EXCEPT
                   !.pc = "write",
                   !.added = AddKeysFrom(fcall.pubKeys, fcall.plainKey, 1, <<>>)]
    /\ UNCHANGED <<evars, uvars, hashAlgo, spc, cfg, sealed, gp, sw>>

\* envelope.WriteKeys(w), reached when AddKeys returned nil
WriteKeysCall ==
    /\ fcall.pc = "write"
    /\ fcall.added.err = Nil
    /\ fcall' = [fcall EXCEPT
                   !.pc = "done",
                   !.written = WriteKeys([NoEnvelope EXCEPT
                                             !.ReceiverKeys = fcall.added.ReceiverKeys])]
    /\ UNCHANGED <<evars, uvars, hashAlgo, spc, cfg, sealed, gp, sw>>

AddKeysNext == AddKeysCall \/ WriteKeysCall

SpecAddKeys == AddKeysInit /\ [][AddKeysNext]_vars

\* C29: every sealed key AddKeys has accepted has a length that is a multiple of 8
\* and whose count of 8-byte units fits one byte; WriteKeys writes them all, and
\* the trailer read back holds the same keys.
C29_AcceptedKeysAreWellFormed ==
    fcall.pc = "done" =>
        /\ \A i \in 1..Len(fcall.added.ReceiverKeys) :
              LET key == fcall.added.ReceiverKeys[i]
              IN  /\ Len(key) % 8 = 0
                  /\ Len(key) \div 8 <= MaxKeyUnits
                  /\ KeyLenByte(key) * 8 = Len(key)
        /\ fcall.written.err = ""
        /\ ReadKeys(fcall.written.out, <<>>) = [err |-> "", keys |-> fcall.added.ReceiverKeys]

\* C29 fails here: a recipient with a 16384-bit RSA key; the sealed key is 2048 bytes
\* long, AddKeys and WriteKeys return nil and the length byte written is 0
C29_Witness ==
    /\ fcall.pc = "done"
    /\ fcall.pubKeys = <<[kind |-> "rsa", size |-> 2048]>>
    /\ fcall.added.err = Nil
    /\ Len(fcall.added.ReceiverKeys[1]) = 2048
    /\ fcall.written.err = ""
    /\ fcall.written.out[1] = 0
    /\ Len(fcall.written.out) = 2049

(***************************************************************************)
(* Image references: ToFileName on Seal, the tag of storeImage on Unseal   *)
(***************************************************************************)
\* ContainerImage.String
String(i) == i.Registry \o <<"/">> \o i.Name \o <<":">> \o i.Tag

\* ContainerImage.ToFileName: filepath.Join(ContainerImagePrefix, Registry, Name:Tag.oci)
ToFileName(i) ==
    ContainerImagePrefix \o <<"/">> \o i.Registry \o <<"/">> \o i.Name \o <<":">> \o i.Tag
        \o <<".oci">>

ContainerImages ==
    [Registry : {<<"docker.io">>, <<RemoteRegistry>>, <<"registry.example.com">>},
     Name : {<<"alpine">>, <<"busybox">>, <<"library", "/", "alpine">>},
     Tag : {<<"latest">>, <<"v1">>, <<"v1", ".", "2">>}]

ImageTagInit ==
    /\ EnvIdle
    /\ UnpackIdle
    /\ SealIdle
    /\ GetPayloadIdle
    /\ \E i \in ContainerImages, t \in {LocalRegistry, RemoteRegistry} :
          fcall = [pc |-> "seal", image |-> i, TargetRegistry |-> t, entry |-> <<>>,
                   tag |-> <<>>]

\* addImages: the image is stored under content.ToFileName()
ImageTagSeal ==
    /\ fcall.pc = "seal"
    /\ fcall' = [fcall EXCEPT !.pc = "unseal", !.entry = ToFileName(fcall.image)]
    /\ UNCHANGED <<evars, uvars, hashAlgo, spc, cfg, sealed, gp, sw>>

\* storeImage and ImportImage: the tag made from the entry name, under which the
\* image is looked up, imported and recorded
ImageTagUnseal ==
    /\ fcall.pc = "unseal"
    /\ fcall' = [fcall EXCEPT !.pc = "done",
                              !.tag = ImportTag(fcall.entry, fcall.TargetRegistry)]
    /\ UNCHANGED <<evars, uvars, hashAlgo, spc, cfg, sealed, gp, sw>>

ImageTagNext == ImageTagSeal \/ ImageTagUnseal

SpecImageTag == ImageTagInit /\ [][ImageTagNext]_vars

\* C30: the tag storeImage works with is the reference that was sealed,
\* <registry>/<name>:<tag>.
C30_TagIsSealedReference ==
    fcall.pc = "done" => fcall.tag = String(fcall.image)

\* C30 fails here: docker.io/alpine:latest, unsealed into the local store, is
\* imported under the tag latest.oci
C30_Witness ==
    /\ fcall.pc = "done"
    /\ fcall.TargetRegistry = LocalRegistry
    /\ String(fcall.image) = <<"docker.io", "/", "alpine", ":", "latest">>
    /\ fcall.entry = ImageName("alpine")
    /\ fcall.tag = <<"docker.io", "/", "alpine", ":", "latest", ".oci">>

====
